---- MODULE Spec2Model ----
(***************************************************************************)
(* Freelancing AI matching service: the in-memory candidate store, the     *)
(* attribute extractor and the matcher of src/main.py.                     *)
(*                                                                         *)
(* Representation.                                                         *)
(*   - A Python str is a sequence of one-character strings.                *)
(*   - A score (a float that the code rounds to 4 decimals) is an integer  *)
(*     number of ten-thousandths: 0.8660 is 8660, -1.0 is -10000.          *)
(*   - An unrounded quotient (skill_score, experience_score) is a pair     *)
(*     [num, den] with den > 0.                                            *)
(*   - An embedding (a list of floats) is a record [scale, v]: with scale  *)
(*     1 the floats are the whole numbers v[i]; with scale 255 it is a     *)
(*     fallback embedding, whose component ((byte / 255.0) * 2) - 1 is     *)
(*     held as v[i] = 2 * byte - 255.  The doubles themselves are computed *)
(*     from these where a score depends on their rounding errors.          *)
(*   - Names, e-mail addresses, messages and resume ids, which the code    *)
(*     only stores and returns, are plain strings.                         *)
(*   - The outcome of a call that can raise is a record [raised, value].   *)
(*                                                                         *)
(* Specifications.                                                         *)
(*   - Spec and SpecBulk: the three handlers statement by statement,       *)
(*     post_job in its worker thread beside the uploads of the event loop. *)
(*     An upload draws 8 hex digits that are new or, at most MaxRepeats    *)
(*     times, those of an earlier upload.                                  *)
(*   - SpecPair: the two resumes and the job post of the repository's      *)
(*     ranking test, the job posted once both uploads are answered.        *)
(*   - SpecSteps: the same steps with ids drawn from two values.           *)
(*   - SpecCalls: direct calls of the module's functions.                  *)
(*   - SpecStore: add and query of the store alone.                        *)
(*   - SpecPrefilter: more rows than the prefilter keeps.                  *)
(*   - SpecAuth: the sign-in routes and GET /ui/resume, in the application *)
(*     of src/main.py or in that of src/frontend/scripts/main.py;          *)
(*     oauth_callback runs step by step in up to MaxCallbacks threads.     *)
(*   Every specification starts under every choice that pow of the C       *)
(*   library has on the arguments that can change one of its scores.       *)
(***************************************************************************)
EXTENDS Integers, Sequences, FiniteSets, TLC

(***************************************************************************)
(* Bounds of the model.                                                    *)
(***************************************************************************)
MaxRows == 2
MaxBulkRows == 6
MaxStepRows == 2
MaxStoreRows == 3
MaxPrefilterRows == 11
MaxSkilled == 1
MaxStates == 2
MaxSessions == 2
MaxCallbacks == 2
MaxRepeats == 1

(***************************************************************************)
(* Characters and strings.                                                 *)
(***************************************************************************)
\* SUPERSCRIPT TWO (U+00B2), a character for which str.isdigit() is true and
\* which int() does not accept.
SuperTwo == "<sup2>"

\* The characters the model uses, in code point order.
Alphabet ==
  << " ", ",", ".", "0", "1", "2", "3", "4", "5", "6", "7", "8", "9",
     "A", "B", "C", "D", "E", "F", "G", "H", "I", "J", "K", "L", "M",
     "N", "O", "P", "Q", "R", "S", "T", "U", "V", "W", "X", "Y", "Z",
     "a", "b", "c", "d", "e", "f", "g", "h", "i", "j", "k", "l", "m",
     "n", "o", "p", "q", "r", "s", "t", "u", "v", "w", "x", "y", "z",
     SuperTwo >>

\* The position of each character in Alphabet.
OrdTable ==
  (" " :> 1) @@ ("," :> 2) @@ ("." :> 3) @@ ("0" :> 4) @@ ("1" :> 5) @@
  ("2" :> 6) @@ ("3" :> 7) @@ ("4" :> 8) @@ ("5" :> 9) @@ ("6" :> 10) @@
  ("7" :> 11) @@ ("8" :> 12) @@ ("9" :> 13) @@ ("A" :> 14) @@ ("B" :> 15) @@
  ("C" :> 16) @@ ("D" :> 17) @@ ("E" :> 18) @@ ("F" :> 19) @@ ("G" :> 20) @@
  ("H" :> 21) @@ ("I" :> 22) @@ ("J" :> 23) @@ ("K" :> 24) @@ ("L" :> 25) @@
  ("M" :> 26) @@ ("N" :> 27) @@ ("O" :> 28) @@ ("P" :> 29) @@ ("Q" :> 30) @@
  ("R" :> 31) @@ ("S" :> 32) @@ ("T" :> 33) @@ ("U" :> 34) @@ ("V" :> 35) @@
  ("W" :> 36) @@ ("X" :> 37) @@ ("Y" :> 38) @@ ("Z" :> 39) @@ ("a" :> 40) @@
  ("b" :> 41) @@ ("c" :> 42) @@ ("d" :> 43) @@ ("e" :> 44) @@ ("f" :> 45) @@
  ("g" :> 46) @@ ("h" :> 47) @@ ("i" :> 48) @@ ("j" :> 49) @@ ("k" :> 50) @@
  ("l" :> 51) @@ ("m" :> 52) @@ ("n" :> 53) @@ ("o" :> 54) @@ ("p" :> 55) @@
  ("q" :> 56) @@ ("r" :> 57) @@ ("s" :> 58) @@ ("t" :> 59) @@ ("u" :> 60) @@
  ("v" :> 61) @@ ("w" :> 62) @@ ("x" :> 63) @@ ("y" :> 64) @@ ("z" :> 65) @@
  (SuperTwo :> 66)

Ord(c) == OrdTable[c]

IsUpper(c) == Ord(c) >= 14 /\ Ord(c) <= 39

\* str.lower() on one character.
LowerChar(c) == IF IsUpper(c) THEN Alphabet[Ord(c) + 26] ELSE c

\* str.lower()
Lower(s) == SubSeq([i \in 1..Len(s) |-> LowerChar(s[i])], 1, Len(s))

IsSpace(c) == c = " "

\* The decimal digits "0".."9".
IsDecimalChar(c) == Ord(c) >= 4 /\ Ord(c) <= 13

\* str.isdigit() on one character: the decimal digits and the other
\* characters of Unicode's digit property, such as SUPERSCRIPT TWO.
IsDigitChar(c) == IsDecimalChar(c) \/ c = SuperTwo

DigitValue(c) == Ord(c) - 4

\* int(s) accepts s: for a string of isdigit() characters, every character
\* is a decimal digit; otherwise int raises ValueError.
IntAccepts(s) == \A i \in 1..Len(s) : IsDecimalChar(s[i])

\* str.isdigit(): non-empty and every character a digit.
IsDigit(s) == Len(s) > 0 /\ \A i \in 1..Len(s) : IsDigitChar(s[i])

\* int(s) for a string of digits.
RECURSIVE ParseInt(_)
ParseInt(s) ==
  IF Len(s) = 0 THEN 0
  ELSE 10 * ParseInt(SubSeq(s, 1, Len(s) - 1)) + DigitValue(s[Len(s)])

\* str.strip(): drop leading and trailing whitespace.
RECURSIVE LStrip(_)
LStrip(s) ==
  IF Len(s) > 0 /\ IsSpace(s[1]) THEN LStrip(Tail(s)) ELSE s

RECURSIVE RStrip(_)
RStrip(s) ==
  IF Len(s) > 0 /\ IsSpace(s[Len(s)]) THEN RStrip(SubSeq(s, 1, Len(s) - 1)) ELSE s

Strip(s) == RStrip(LStrip(s))

\* str.split(): the maximal runs of non-whitespace characters, in order.
RECURSIVE SplitWs(_, _)
SplitWs(s, cur) ==
  IF Len(s) = 0 THEN (IF Len(cur) = 0 THEN << >> ELSE << cur >>)
  ELSE IF IsSpace(s[1])
       THEN (IF Len(cur) = 0 THEN SplitWs(Tail(s), << >>)
             ELSE << cur >> \o SplitWs(Tail(s), << >>))
       ELSE SplitWs(Tail(s), Append(cur, s[1]))

Split(s) == SplitWs(s, << >>)

\* str.split(","): the pieces between commas, empty pieces included.
RECURSIVE SplitComma(_, _)
SplitComma(s, cur) ==
  IF Len(s) = 0 THEN << cur >>
  ELSE IF s[1] = ","
       THEN << cur >> \o SplitComma(Tail(s), << >>)
       ELSE SplitComma(Tail(s), Append(cur, s[1]))

\* `sub in s` for strings.
Contains(s, sub) ==
  \E i \in 0..(Len(s) - Len(sub)) : SubSeq(s, i + 1, i + Len(sub)) = sub

\* s < t in Python's string order (code points, shorter prefix first).
StrLess(s, t) ==
  \E i \in 1..(Len(t)) :
    /\ \A j \in 1..(i - 1) : j <= Len(s) /\ s[j] = t[j]
    /\ \/ i = Len(s) + 1
       \/ i <= Len(s) /\ Ord(s[i]) < Ord(t[i])

\* sorted(S) for a set of strings.
RECURSIVE SortedStrings(_)
SortedStrings(S) ==
  IF S = {} THEN << >>
  ELSE LET m == CHOOSE x \in S : \A y \in S \ {x} : StrLess(x, y)
       IN << m >> \o SortedStrings(S \ {m})

SeqToSet(q) == {q[i] : i \in 1..Len(q)}

(***************************************************************************)
(* Arithmetic.                                                             *)
(***************************************************************************)
Min(x, y) == IF x <= y THEN x ELSE y

Max(x, y) == IF x >= y THEN x ELSE y

Abs(x) == IF x < 0 THEN -x ELSE x

(***************************************************************************)
(* Floating point.  The scores are Python floats: IEEE 754 doubles, every  *)
(* operation rounded to the nearest double, halves to the even mantissa.   *)
(* Where the mathematical value of a score lies so near the middle of two  *)
(* multiples of 0.0001 that the rounding errors of the double x can move   *)
(* it across, round(x, 4) is computed on the doubles.                      *)
(* A natural number of any size is the sequence of its digits in base      *)
(* 2^13, lowest first, without a leading zero digit; a double is a record  *)
(* [neg, m, e] that stands for (-1)^neg * m * 2^e.                         *)
(***************************************************************************)
LimbBits == 13

Limb == 8192

RECURSIVE Pow2(_)
Pow2(k) == IF k = 0 THEN 1 ELSE 2 * Pow2(k - 1)

RECURSIVE NatOf(_)
NatOf(n) == IF n = 0 THEN << >> ELSE << n % Limb >> \o NatOf(n \div Limb)

RECURSIVE NatInt(_)
NatInt(a) == IF Len(a) = 0 THEN 0 ELSE a[1] + Limb * NatInt(Tail(a))

RECURSIVE NatTrim(_)
NatTrim(a) ==
  IF Len(a) > 0 /\ a[Len(a)] = 0 THEN NatTrim(SubSeq(a, 1, Len(a) - 1)) ELSE a

LimbAt(a, i) == IF i >= 1 /\ i <= Len(a) THEN a[i] ELSE 0

RECURSIVE AddFrom(_, _, _, _)
AddFrom(a, b, i, carry) ==
  IF i > Len(a) /\ i > Len(b)
  THEN (IF carry = 0 THEN << >> ELSE << carry >>)
  ELSE << (LimbAt(a, i) + LimbAt(b, i) + carry) % Limb >>
         \o AddFrom(a, b, i + 1, (LimbAt(a, i) + LimbAt(b, i) + carry) \div Limb)

NatAdd(a, b) == AddFrom(a, b, 1, 0)

RECURSIVE SubFrom(_, _, _, _)
SubFrom(a, b, i, borrow) ==
  IF i > Len(a) THEN << >>
  ELSE << (Limb + LimbAt(a, i) - LimbAt(b, i) - borrow) % Limb >>
         \o SubFrom(a, b, i + 1, IF LimbAt(a, i) - LimbAt(b, i) - borrow < 0 THEN 1 ELSE 0)

\* a - b for a >= b
NatSub(a, b) == NatTrim(SubFrom(a, b, 1, 0))

RECURSIVE LessFrom(_, _, _)
LessFrom(a, b, i) ==
  IF i = 0 THEN FALSE
  ELSE IF a[i] # b[i] THEN a[i] < b[i]
  ELSE LessFrom(a, b, i - 1)

NatLess(a, b) == IF Len(a) # Len(b) THEN Len(a) < Len(b) ELSE LessFrom(a, b, Len(a))

RECURSIVE ScaleFrom(_, _, _, _)
ScaleFrom(a, g, i, carry) ==
  IF i > Len(a) THEN NatOf(carry)
  ELSE << (a[i] * g + carry) % Limb >> \o ScaleFrom(a, g, i + 1, (a[i] * g + carry) \div Limb)

\* a * g for 0 <= g < 2^17
NatScale(a, g) == IF g = 0 THEN << >> ELSE ScaleFrom(a, g, 1, 0)

\* a * Limb^k
ShiftLimbs(a, k) == IF Len(a) = 0 \/ k <= 0 THEN a ELSE SubSeq([i \in 1..k |-> 0], 1, k) \o a

\* a * 2^k
NatShl(a, k) == ShiftLimbs(NatScale(a, Pow2(k % LimbBits)), k \div LimbBits)

\* a \div 2^(LimbBits * q + r)
ShrLimbs(a, q, r) ==
  NatTrim(SubSeq([i \in 1..(Len(a) - q) |->
                    (LimbAt(a, i + q) \div Pow2(r))
                      + (LimbAt(a, i + q + 1) % Pow2(r)) * Pow2(LimbBits - r)],
                 1, Len(a) - q))

NatShr(a, k) == IF k \div LimbBits >= Len(a) THEN << >> ELSE ShrLimbs(a, k \div LimbBits, k % LimbBits)

RECURSIVE MulFrom(_, _, _)
MulFrom(a, b, i) ==
  IF i > Len(a) THEN << >>
  ELSE NatAdd(NatScale(b, a[i]), ShiftLimbs(MulFrom(a, b, i + 1), 1))

NatMul(a, b) == MulFrom(a, b, 1)

RECURSIVE BitLength(_)
BitLength(x) == IF x = 0 THEN 0 ELSE 1 + BitLength(x \div 2)

\* The number of binary digits of a.
NatBits(a) == IF Len(a) = 0 THEN 0 ELSE LimbBits * (Len(a) - 1) + BitLength(a[Len(a)])

\* The binary digit of a at place i, counted from 1 at the lowest.
NatBit(a, i) == (LimbAt(a, ((i - 1) \div LimbBits) + 1) \div Pow2((i - 1) % LimbBits)) % 2

RECURSIVE DigitSearch(_, _, _, _)
\* The largest g in lo..hi with d * g <= r.
DigitSearch(lo, hi, r, d) ==
  IF lo = hi THEN lo
  ELSE IF NatLess(r, NatScale(d, (lo + hi + 1) \div 2))
       THEN DigitSearch(lo, ((lo + hi + 1) \div 2) - 1, r, d)
       ELSE DigitSearch((lo + hi + 1) \div 2, hi, r, d)

\* Long division, one digit of the dividend at a time from the highest.
DivTake(q, r, d, g) == [q |-> NatTrim(<< g >> \o q), r |-> NatSub(r, NatScale(d, g))]

DivPlace(q, r, d) == DivTake(q, r, d, DigitSearch(0, Limb - 1, r, d))

DivStep(high, digit, d) ==
  IF Len(high.r) = 0 /\ digit = 0
  THEN [q |-> NatTrim(<< 0 >> \o high.q), r |-> << >>]
  ELSE DivPlace(high.q, NatTrim(<< digit >> \o high.r), d)

RECURSIVE DivFrom(_, _, _)
DivFrom(n, d, i) ==
  IF i > Len(n) THEN [q |-> << >>, r |-> << >>]
  ELSE DivStep(DivFrom(n, d, i + 1), n[i], d)

NatDivMod(n, d) == DivFrom(n, d, 1)

\* The integer square root, two digits of n at a time from the highest:
\* the next digit g of the root is the largest with
\* (2 * root * Limb + g) * g <= rem.
SqrtTrial(root, g) == NatScale(NatAdd(ShiftLimbs(NatScale(root, 2), 1), NatOf(g)), g)

RECURSIVE SqrtSearch(_, _, _, _)
SqrtSearch(lo, hi, root, rem) ==
  IF lo = hi THEN lo
  ELSE IF NatLess(rem, SqrtTrial(root, (lo + hi + 1) \div 2))
       THEN SqrtSearch(lo, ((lo + hi + 1) \div 2) - 1, root, rem)
       ELSE SqrtSearch((lo + hi + 1) \div 2, hi, root, rem)

SqrtTake(root, rem, g) ==
  [root |-> NatTrim(<< g >> \o root), rem |-> NatSub(rem, SqrtTrial(root, g))]

SqrtPlace(root, rem) == SqrtTake(root, rem, SqrtSearch(0, Limb - 1, root, rem))

SqrtStep(high, low, mid) ==
  IF Len(high.rem) = 0 /\ low = 0 /\ mid = 0
  THEN [root |-> NatTrim(<< 0 >> \o high.root), rem |-> << >>]
  ELSE SqrtPlace(high.root, NatTrim(<< low, mid >> \o high.rem))

RECURSIVE SqrtFrom(_, _)
SqrtFrom(n, i) ==
  IF 2 * i - 1 > Len(n) THEN [root |-> << >>, rem |-> << >>]
  ELSE SqrtStep(SqrtFrom(n, i + 1), LimbAt(n, 2 * i - 1), LimbAt(n, 2 * i))

NatSqrt(n) == SqrtFrom(n, 1)

\* The mantissa of a double has 53 binary digits.
MantissaBits == 53

\* The double nearest to (n + f) * 2^e, where 0 <= f < 1 and f > 0 exactly
\* when sticky; n has at least two digits more than the mantissa when
\* sticky.  Halves go to the even mantissa.
RoundUp(n, sticky, drop) ==
  /\ NatBit(n, drop) = 1
  /\ \/ sticky
     \/ NatBit(n, drop + 1) = 1
     \/ \E i \in 1..(drop - 1) : NatBit(n, i) = 1

RoundDrop(neg, n, sticky, e, drop) ==
  [neg |-> neg,
   m |-> IF RoundUp(n, sticky, drop) THEN NatAdd(NatShr(n, drop), << 1 >>) ELSE NatShr(n, drop),
   e |-> e + drop]

RoundNearest(neg, n, sticky, e) ==
  IF NatBits(n) <= MantissaBits
  THEN [neg |-> neg, m |-> n, e |-> e]
  ELSE RoundDrop(neg, n, sticky, e, NatBits(n) - MantissaBits)

\* float(n) for an integer below 2^31
FromInt(n) == [neg |-> n < 0, m |-> NatOf(Abs(n)), e |-> 0]

FMul(x, y) == RoundNearest(x.neg # y.neg, NatMul(x.m, y.m), FALSE, x.e + y.e)

DivRound(neg, qr, e) == RoundNearest(neg, qr.q, Len(qr.r) > 0, e)

DivShift(x, y) == Max(0, NatBits(y.m) + MantissaBits + 3 - NatBits(x.m))

\* x / y for y # 0
FDiv(x, y) ==
  DivRound(x.neg # y.neg, NatDivMod(NatShl(x.m, DivShift(x, y)), y.m),
           x.e - DivShift(x, y) - y.e)

AddAligned(x, y, a, b, e) ==
  IF x.neg = y.neg THEN RoundNearest(x.neg, NatAdd(a, b), FALSE, e)
  ELSE IF NatLess(a, b) THEN RoundNearest(y.neg, NatSub(b, a), FALSE, e)
  ELSE RoundNearest(x.neg, NatSub(a, b), FALSE, e)

FAdd(x, y) ==
  AddAligned(x, y, NatShl(x.m, x.e - Min(x.e, y.e)), NatShl(y.m, y.e - Min(x.e, y.e)),
             Min(x.e, y.e))

SqrtRound(rr, e) == RoundNearest(FALSE, rr.root, Len(rr.rem) > 0, e)

\* Python leaves x ** 0.5 to pow of the C library, which returns one of the
\* two doubles around the root of x, and not for every x the nearer one.
VARIABLE
  libm              \* the doubles x for which pow(x, 0.5) of this C library
                    \* returns the double on the other side of the root

\* x and y are the same number.
SameDouble(x, y) ==
  /\ x.neg = y.neg
  /\ NatShl(x.m, x.e - Min(x.e, y.e)) = NatShl(y.m, y.e - Min(x.e, y.e))

\* The root is not a double.
SqrtInexact(rr) ==
  \/ Len(rr.rem) > 0
  \/ \E i \in 1..(NatBits(rr.root) - MantissaBits) : NatBit(rr.root, i) = 1

\* Of the two doubles around the root, the one SqrtRound does not return.
SqrtOther(rr, e, drop) ==
  [neg |-> FALSE,
   m |-> IF RoundUp(rr.root, Len(rr.rem) > 0, drop) THEN NatShr(rr.root, drop)
         ELSE NatAdd(NatShr(rr.root, drop), << 1 >>),
   e |-> e + drop]

SqrtChoice(x, rr, e) ==
  IF SqrtInexact(rr) /\ \E y \in libm : SameDouble(x, y)
  THEN SqrtOther(rr, e, NatBits(rr.root) - MantissaBits)
  ELSE SqrtRound(rr, e)

\* The mantissa of x over an even exponent.
SqrtOperand(x) == IF x.e % 2 = 0 THEN x.m ELSE NatScale(x.m, 2)

\* x ** 0.5 for a double x >= 0: the root of the mantissa times Limb^10 is
\* taken and scaled by 2^-65.
PowHalf(x) ==
  SqrtChoice(x, NatSqrt(ShiftLimbs(SqrtOperand(x), 10)),
             ((x.e - (x.e % 2)) \div 2) - 5 * LimbBits)

\* n / d for two integers: true division rounds the exact quotient once.
FRatio(n, d) == FDiv(FromInt(n), FromInt(d))

\* round(x, 4) of a double, in ten-thousandths: the decimal nearest to the
\* value of the double, halves to the even digit.
DecimalUp(n, f, q) ==
  /\ NatBit(n, f) = 1
  /\ \/ q % 2 = 1
     \/ \E i \in 1..(f - 1) : NatBit(n, i) = 1

DecimalPlace(n, f, q) == IF DecimalUp(n, f, q) THEN q + 1 ELSE q

DecimalOf(n, e) ==
  IF e >= 0 THEN NatInt(NatShl(n, e))
  ELSE DecimalPlace(n, 0 - e, NatInt(NatShr(n, 0 - e)))

RoundFloat4(x) ==
  IF x.neg
  THEN 0 - DecimalOf(NatScale(x.m, 10000), x.e)
  ELSE DecimalOf(NatScale(x.m, 10000), x.e)

\* The integer nearest to the exact quotient n/d for d > 0, halves to the
\* even neighbour: what round returns when the double it is given carries
\* no rounding error.
RoundHalfEven(n, d) ==
  LET q == n \div d
      r == n - q * d
  IN IF r < d - r THEN q
     ELSE IF r > d - r THEN q + 1
     ELSE IF q % 2 = 0 THEN q ELSE q + 1

\* 10000 * n/d lies exactly half way between two integers.
HalfWay(n, d) == (10000 * n) % d = d - ((10000 * n) % d)

\* round(x, 4) of the double x = n / d, in ten-thousandths.  Away from a
\* half the rounding error of x is too small to change the result; at a
\* half, and for an n whose multiple does not fit a 32-bit integer, the
\* double decides.
Round4(n, d) ==
  IF Abs(n) > 200000 \/ HalfWay(n, d) THEN RoundFloat4(FRatio(n, d))
  ELSE RoundHalfEven(10000 * n, d)

(***************************************************************************)
(* Embedding provider and cosine similarity.                               *)
(***************************************************************************)
\* dim of _fallback_embedding
FallbackDim == 32

\* A list of floats that are whole numbers.
Floats(v) == [scale |-> 1, v |-> v]

\* No embedding.
NoVector == [scale |-> 0, v |-> << >>]

\* sum(x * y for x, y in zip(a, b)) in units of 1 / (a.scale * b.scale):
\* zip stops at the shorter vector.  The sums stay below 2^31 for the
\* vectors of the model and for every fallback embedding (32 * 255^2).
RECURSIVE DotTo(_, _, _)
DotTo(a, b, n) == IF n = 0 THEN 0 ELSE DotTo(a, b, n - 1) + a[n] * b[n]

Dot(a, b) == DotTo(a.v, b.v, Min(Len(a.v), Len(b.v)))

\* sum(x * x for x in a): the squared magnitude.
SumSq(a) == Dot(a, a)

\* cosine_similarity(a, b) returns the double nearest to
\* dot / (sqrt(sq_a) * sqrt(sq_b)) up to the rounding errors of its steps;
\* it is held as these three whole numbers, in which the scales cancel,
\* with the two vectors.  0.0 (dot 0) when a magnitude is 0.
\* Variant: the quotient is taken over the first magnitude only.
QuotientOneMagnitude(dot, sq_a, sq_b) ==
  IF sq_a = 0 \/ sq_b = 0
  THEN [dot |-> 0, sq_a |-> 1, sq_b |-> 1]
  ELSE [dot |-> dot, sq_a |-> sq_a, sq_b |-> 1]

\* Variant: only the first magnitude is tested before the division.
QuotientFirstTested(dot, sq_a, sq_b) ==
  IF sq_a = 0
  THEN [dot |-> 0, sq_a |-> 1, sq_b |-> 1]
  ELSE [dot |-> dot, sq_a |-> sq_a, sq_b |-> sq_b]

Quotient(dot, sq_a, sq_b) ==
  IF sq_a = 0 \/ sq_b = 0
  THEN [dot |-> 0, sq_a |-> 1, sq_b |-> 1]
  ELSE [dot |-> dot, sq_a |-> sq_a, sq_b |-> sq_b]

Cosine(a, b, q) == [a |-> a, b |-> b, dot |-> q.dot, sq_a |-> q.sq_a, sq_b |-> q.sq_b]

cosine_similarity(a, b) == Cosine(a, b, Quotient(Dot(a, b), SumSq(a), SumSq(b)))

\* ((byte / 255.0) * 2) - 1
FallbackFloat(byte) ==
  FAdd(FMul(FDiv(FromInt(byte), FromInt(255)), FromInt(2)), FromInt(-1))

\* The i-th float of an embedding.
Component(a, i) ==
  IF a.scale = 255 THEN FallbackFloat((a.v[i] + 255) \div 2) ELSE FromInt(a.v[i])

\* sum(x * y for x, y in zip(a, b)) on doubles: sum adds the products to 0
\* from the left, the first one unchanged, and rounds after every addition
\* (CPython up to 3.11; from 3.12 on sum carries a correction term along).
RECURSIVE FloatDotFrom(_, _, _, _, _)
FloatDotFrom(a, b, i, n, sum) ==
  IF i > n THEN sum
  ELSE IF Len(sum.m) = 0
       THEN FloatDotFrom(a, b, i + 1, n, FMul(Component(a, i), Component(b, i)))
       ELSE FloatDotFrom(a, b, i + 1, n, FAdd(sum, FMul(Component(a, i), Component(b, i))))

FloatDot(a, b) == FloatDotFrom(a, b, 1, Min(Len(a.v), Len(b.v)), FromInt(0))

\* mag_a = sum(x * x for x in a) ** 0.5
Magnitude(a) == PowHalf(FloatDot(a, a))

\* dot / (mag_a * mag_b) on doubles.
FloatQuotient(c) ==
  FDiv(FloatDot(c.a, c.b), FMul(Magnitude(c.a), Magnitude(c.b)))

\* round(score, 4) of a cosine_similarity result, in ten-thousandths.
\* With x = 20000 * |dot| / sqrt(sq) for sq = sq_a * sq_b and
\* target = (20000 * dot)^2, the exact quotient rounds to the largest k with
\* x >= 2k - 1.  The double that cosine_similarity returned differs from
\* the exact quotient by less than 10^-12 (the sums of whole numbers are
\* exact, a fallback embedding has 32 floats, every step is rounded once and
\* pow is off by less than one unit in the last place), so it rounds to k as well unless x is within 20000 * 10^-12 of the odd
\* number 2k - 1 or 2k + 1; then the double decides.  The distance of x to
\* an odd number o is gap / (sq * (x + o)) for gap = |target - o^2 * sq|,
\* and x + o < 2 * (2k + 1): x is far enough from o when
\* gap * 10^8 >= 4 * (2k + 1) * sq.
\* by_double is what round(score, 4) gives on the double.
\* A cosine is at most 1; a quotient beyond ScoreCap, which only a variant
\* of cosine_similarity produces, reads as ScoreCap.
ScoreCap == 10000 + 5000

Signed(c, k) == IF c.dot < 0 THEN 0 - k ELSE k

\* Numbers of any size.
GapBelow(target, sq, k) == NatSub(target, NatMul(NatOf((2 * k - 1) * (2 * k - 1)), sq))

GapAbove(target, sq, k) == NatSub(NatMul(NatOf((2 * k + 1) * (2 * k + 1)), sq), target)

Apart(gap, sq, k) ==
  ~ NatLess(NatScale(NatScale(gap, 10000), 10000), NatScale(NatMul(NatOf(2 * k + 1), sq), 4))

AwayFromHalf(target, sq, k) ==
  /\ Apart(GapAbove(target, sq, k), sq, k)
  /\ k >= 1 => Apart(GapBelow(target, sq, k), sq, k)

RoundTie(c, target, sq, k, by_double) ==
  IF k = ScoreCap \/ AwayFromHalf(target, sq, k) THEN Signed(c, k)
  ELSE by_double

\* floor(x) is the integer square root of target \div sq, and
\* k = (floor(x) + 1) \div 2.
RoundCapped(c, target, sq, floor_x, by_double) ==
  RoundTie(c, target, sq,
           IF NatBits(floor_x) > 15 THEN ScoreCap
           ELSE Min(ScoreCap, (NatInt(floor_x) + 1) \div 2),
           by_double)

RoundTarget(c, target, sq, by_double) ==
  IF Len(sq) = 0 THEN Signed(c, ScoreCap)
  ELSE RoundCapped(c, target, sq, NatSqrt(NatDivMod(target, sq).q).root, by_double)

RoundSquare(c, d, by_double) ==
  RoundTarget(c, NatMul(d, d), NatMul(NatOf(c.sq_a), NatOf(c.sq_b)), by_double)

\* Small numbers: the same on numbers of three digits in base 10000, the
\* highest first.  The product x * y for 0 <= x < 10^9 and 0 <= y < 10^8:
Carry(high, mid, low) == << high + (mid \div 10000), mid % 10000, low >>

Limbs(high, mid, low) == Carry(high, mid + (low \div 10000), low % 10000)

BigMul(x, y) ==
  Limbs((x \div 10000) * (y \div 10000),
        (x \div 10000) * (y % 10000) + (x % 10000) * (y \div 10000),
        (x % 10000) * (y % 10000))

BigLess(u, v) ==
  \/ u[1] < v[1]
  \/ u[1] = v[1] /\ u[2] < v[2]
  \/ u[1] = v[1] /\ u[2] = v[2] /\ u[3] < v[3]

\* u - v for u >= v, or 2 * 10^8 if it is larger.
BigGap(u, v) ==
  IF u[1] - v[1] > 1 THEN 200000000
  ELSE (u[1] - v[1]) * 100000000 + (u[2] - v[2]) * 10000 + (u[3] - v[3])

\* gap * 10^8 >= bound
BigApart(gap, bound) ==
  \/ gap > bound[1]
  \/ gap = bound[1] /\ bound[2] = 0 /\ bound[3] = 0

BigAway(target, sq, k) ==
  /\ BigApart(BigGap(BigMul((2 * k + 1) * (2 * k + 1), sq), target), BigMul(4 * (2 * k + 1), sq))
  /\ k >= 1 => BigApart(BigGap(target, BigMul((2 * k - 1) * (2 * k - 1), sq)),
                        BigMul(4 * (2 * k + 1), sq))

RoundTieSmall(c, target, sq, k, by_double) ==
  IF k = ScoreCap \/ BigAway(target, sq, k) THEN Signed(c, k)
  ELSE by_double

\* x >= 2k - 1
AtLeastHalfBelow(k, target, sq) ==
  ~ BigLess(target, BigMul((2 * k - 1) * (2 * k - 1), sq))

RECURSIVE RoundSearch(_, _, _, _)
\* The largest k in lo..hi with x >= 2k - 1 (lo qualifies).
RoundSearch(lo, hi, target, sq) ==
  IF lo = hi THEN lo
  ELSE IF AtLeastHalfBelow((lo + hi + 1) \div 2, target, sq)
       THEN RoundSearch((lo + hi + 1) \div 2, hi, target, sq)
       ELSE RoundSearch(lo, ((lo + hi + 1) \div 2) - 1, target, sq)

RECURSIVE FloorSqrt(_, _, _)
\* The largest r in lo..hi with r * r <= n.
FloorSqrt(lo, hi, n) ==
  IF lo = hi THEN lo
  ELSE IF ((lo + hi + 1) \div 2) * ((lo + hi + 1) \div 2) <= n
       THEN FloorSqrt((lo + hi + 1) \div 2, hi, n)
       ELSE FloorSqrt(lo, ((lo + hi + 1) \div 2) - 1, n)

\* With r = floor(100 * sqrt(sq)), x / 2 lies between 10^6 * |dot| / (r + 1)
\* and 10^6 * |dot| / r, which brackets the search.
RoundBracket(c, target, sq, r, by_double) ==
  RoundTieSmall(c, target, sq,
                RoundSearch(Min(ScoreCap, (1000000 * Abs(c.dot)) \div (r + 1)),
                            Min(ScoreCap, ((1000000 * Abs(c.dot)) \div r) + 1),
                            target, sq),
                by_double)

RoundSmall(c, sq, by_double) ==
  RoundBracket(c, BigMul(400000000, c.dot * c.dot), sq, FloorSqrt(1, 46340, 10000 * sq),
               by_double)

\* The products of the small numbers fit a 32-bit integer.
Small(c) == Abs(c.dot) < 2000 /\ c.sq_a > 0 /\ c.sq_b > 0 /\ c.sq_b <= 200000 \div c.sq_a

RoundWith(c, by_double) ==
  IF Small(c) THEN RoundSmall(c, c.sq_a * c.sq_b, by_double)
  ELSE RoundSquare(c, NatScale(NatOf(Abs(c.dot)), 20000), by_double)

RoundScore(c) == RoundWith(c, RoundFloat4(FloatQuotient(c)))

\* The score of c is rounded on the double: it depends on the rounding
\* errors of cosine_similarity's steps, those of pow among them.
NearHalf(c) == RoundWith(c, 2 * ScoreCap) = 2 * ScoreCap

\* The arguments of pow on which a score can depend when cosine_similarity
\* is called on a vector of A and one of B: the sums of squares of the
\* vectors with a score that is rounded on the double.
PowChoices(A, B) ==
  {FloatDot(v, v) : v \in {a \in A : \E b \in B : NearHalf(cosine_similarity(a, b))}
                      \cup {b \in B : \E a \in A : NearHalf(cosine_similarity(a, b))}}

\* A fallback whose number of components follows the digest's first byte.
FallbackEmbeddingByteLength(digest, dim) ==
  [scale |-> 255,
   v |-> SubSeq([i \in 1..(digest[1] \div 4) |-> 2 * digest[((i - 1) % Len(digest)) + 1] - 255],
                1, digest[1] \div 4)]

\* _fallback_embedding(text, dim) for digest = sha256(text).digest().
fallback_embedding(digest, dim) ==
  [scale |-> 255,
   v |-> SubSeq([i \in 1..dim |-> 2 * digest[((i - 1) % Len(digest)) + 1] - 255], 1, dim)]

\* EmbeddingService.encode([text])[0]: the model's vector when a model is
\* loaded, else the fallback embedding of the text's digest.  ext is what
\* the library call behind it returned: the vector of SentenceTransformer
\* or the SHA-256 digest.
encode(has_model, ext) ==
  IF has_model THEN Floats(ext) ELSE fallback_embedding(ext, FallbackDim)

(***************************************************************************)
(* Attribute extractor.                                                    *)
(***************************************************************************)
common_skills ==
  { << "p", "y", "t", "h", "o", "n" >>,
    << "f", "a", "s", "t", "a", "p", "i" >>,
    << "d", "j", "a", "n", "g", "o" >>,
    << "f", "l", "a", "s", "k" >>,
    << "r", "e", "a", "c", "t" >>,
    << "n", "e", "x", "t", ".", "j", "s" >>,
    << "n", "o", "d", "e" >>,
    << "a", "w", "s" >>,
    << "p", "o", "s", "t", "g", "r", "e", "s", "q", "l" >>,
    << "d", "o", "c", "k", "e", "r" >>,
    << "k", "u", "b", "e", "r", "n", "e", "t", "e", "s" >> }

\* The outcome of a call: the value returned, or the exception raised.
Returns(v) == [raised |-> "", value |-> v]

Raises(exception) == [raised |-> exception, value |-> 0]

\* Variant: the first token of digits is returned, whatever its value.
RECURSIVE FirstYearsAnyValue(_)
FirstYearsAnyValue(tokens) ==
  IF Len(tokens) = 0 THEN Returns(0)
  ELSE IF IsDigit(tokens[1])
       THEN (IF ~ IntAccepts(tokens[1]) THEN Raises("ValueError")
             ELSE Returns(ParseInt(tokens[1])))
       ELSE FirstYearsAnyValue(Tail(tokens))

\* The loop of _extract_experience_years over the tokens.
RECURSIVE FirstYears(_)
FirstYears(tokens) ==
  IF Len(tokens) = 0 THEN Returns(0)
  ELSE IF IsDigit(tokens[1])
       THEN (IF ~ IntAccepts(tokens[1]) THEN Raises("ValueError")
             ELSE IF 0 < ParseInt(tokens[1]) /\ ParseInt(tokens[1]) < 51
                  THEN Returns(ParseInt(tokens[1]))
                  ELSE FirstYears(Tail(tokens)))
       ELSE FirstYears(Tail(tokens))

extract_experience_years(resume_text_lower) == FirstYears(Split(resume_text_lower))

\* Variant: a skill counts only where it is a whole whitespace-delimited token.
ExtractSkillsWholeTokens(resume_text_lower) ==
  SortedStrings(common_skills \cap SeqToSet(Split(resume_text_lower)))

extract_skills(resume_text_lower) ==
  SortedStrings({skill \in common_skills : Contains(resume_text_lower, skill)})

(***************************************************************************)
(* Candidate store (InMemoryCollection).                                   *)
(***************************************************************************)
\* list.sort(key, reverse=True) as the permutation it applies: perm[p] is
\* the index whose element lands at position p.  The sort is stable, so
\* elements with equal keys keep their order.
SortRank(keys, i) ==
  1 + Cardinality({j \in 1..Len(keys) : keys[j] > keys[i]})
    + Cardinality({j \in 1..Len(keys) : j < i /\ keys[j] = keys[i]})

SortDescending(keys) ==
  SubSeq([p \in 1..Len(keys) |-> CHOOSE i \in 1..Len(keys) : SortRank(keys, i) = p],
         1, Len(keys))

\* seq[:n]
Take(seq, n) ==
  IF n >= 0 THEN SubSeq(seq, 1, Min(n, Len(seq)))
  ELSE SubSeq(seq, 1, Max(Len(seq) + n, 0))

\* A store that keeps one row per id: a record whose id is already stored
\* replaces that row.
AddReplacing(rs, doc, emb, item_id) ==
  IF \E i \in 1..Len(rs) : rs[i].id = item_id
    THEN SubSeq([i \in 1..Len(rs) |->
                   IF rs[i].id = item_id
                     THEN [id |-> item_id, document |-> doc, embedding |-> emb]
                     ELSE rs[i]], 1, Len(rs))
    ELSE Append(rs, [id |-> item_id, document |-> doc, embedding |-> emb])

\* InMemoryCollection.add(documents=[doc], embeddings=[emb], ids=[item_id])
add(rs, doc, emb, item_id) ==
  Append(rs, [id |-> item_id, document |-> doc, embedding |-> emb])

\* The list `scored` of InMemoryCollection.query before it is sorted.
Scored(rs, query_embedding) ==
  SubSeq([i \in 1..Len(rs) |->
            [id |-> rs[i].id, document |-> rs[i].document,
             score |-> RoundScore(cosine_similarity(query_embedding, rs[i].embedding))]],
         1, Len(rs))

\* InMemoryCollection.query(query_embedding, n_results)
\* seq reordered by the permutation perm.
Permute(seq, perm) == SubSeq([p \in 1..Len(seq) |-> seq[perm[p]]], 1, Len(seq))

\* An ascending sort that is then reversed: descending, but rows of equal
\* score come out in reverse insertion order.
SortByScoreReversed(scored) ==
  Permute(scored,
          SubSeq([p \in 1..Len(scored) |->
                    SortDescending(SubSeq([i \in 1..Len(scored) |-> 0 - scored[i].score],
                                          1, Len(scored)))[Len(scored) + 1 - p]],
                 1, Len(scored)))

\* scored.sort(key=lambda item: item["score"], reverse=True)
SortByScore(scored) ==
  Permute(scored, SortDescending(SubSeq([i \in 1..Len(scored) |-> scored[i].score],
                                        1, Len(scored))))

query(rs, query_embedding, n_results) ==
  Take(SortByScore(Scored(rs, query_embedding)), n_results)

(***************************************************************************)
(* Matcher (post_job).                                                     *)
(***************************************************************************)
\* n_results of the semantic prefilter and the length of the answer.
PrefilterSize == 10

TopSize == 5

\* resume_metadata.get(id, {"skills": [], "experience_years": 0})
GetCandidate(metadata, id) ==
  IF id \in DOMAIN metadata
  THEN metadata[id]
  ELSE [skills |-> << >>, experience_years |-> 0]

\* Variant: the required skills are compared as posted.
RequiredSetRaw(required_skills) == SeqToSet(required_skills)

\* {skill.lower() for skill in job.required_skills}
RequiredSet(required_skills) == {Lower(required_skills[i]) : i \in 1..Len(required_skills)}

\* Variant: the quotient is not capped at 1.0.
ExperienceScoreUncapped(candidate, job) ==
  [num |-> candidate.experience_years, den |-> Max(job.min_experience_years, 1)]

\* min(candidate["experience_years"] / max(job.min_experience_years, 1), 1.0)
ExperienceScore(candidate, job) ==
  LET den == Max(job.min_experience_years, 1)
  IN IF candidate.experience_years >= den
     THEN [num |-> 1, den |-> 1]
     ELSE [num |-> candidate.experience_years, den |-> den]

\* Variant: a job without required skills gives full credit.
SkillScoreFullCredit(candidate, required) ==
  IF required = {}
  THEN [num |-> 1, den |-> 1]
  ELSE [num |-> Cardinality(required \cap SeqToSet(candidate.skills)),
        den |-> Cardinality(required)]

\* len(required & available) / max(len(required), 1)
SkillScore(candidate, required) ==
  [num |-> Cardinality(required \cap SeqToSet(candidate.skills)),
   den |-> Max(Cardinality(required), 1)]

\* Variant: experience weighs 0.5 instead of 0.3.
FinalScoreHeavy(skill, experience, score) ==
  RoundHalfEven(25000 * skill.num * experience.den
                  + 25000 * experience.num * skill.den
                  + score * skill.den * experience.den,
                5 * skill.den * experience.den)

\* Variant: the composite is taken over the rounded skill and experience
\* scores of the response.
FinalScoreFromRounded(skill, experience, score) ==
  RoundHalfEven(5 * Round4(skill.num, skill.den)
                  + 3 * Round4(experience.num, experience.den)
                  + 2 * score,
                10)

\* (0.5 * skill_score) + (0.3 * experience_score) + (0.2 * score) on doubles,
\* every product and every sum rounded, from left to right.
FloatSum(skill, experience, score) ==
  FAdd(FAdd(FMul(FRatio(1, 2), FRatio(skill.num, skill.den)),
            FMul(FRatio(3, 10), FRatio(experience.num, experience.den))),
       FMul(FRatio(2, 10), FRatio(score, 10000)))

\* round(0.5 * skill_score + 0.3 * experience_score + 0.2 * score, 4), in
\* ten-thousandths; score is in ten-thousandths already.  The exact sum is
\* n / d ten-thousandths; at a half the sum of the doubles decides.
FinalRound(skill, experience, score, n, d) ==
  IF 2 * (n % d) = d
  THEN RoundFloat4(FloatSum(skill, experience, score))
  ELSE RoundHalfEven(n, d)

\* The products of n and d fit a 32-bit integer, and d is so small that
\* the rounding errors of the doubles cannot reach a half from n / d.
FinalFits(skill, experience) ==
  /\ experience.den <= 20000 \div skill.den
  /\ Abs(experience.num) <= 20000 \div skill.den

FinalScore(skill, experience, score) ==
  IF FinalFits(skill, experience)
  THEN FinalRound(skill, experience, score,
                  25000 * skill.num * experience.den + 15000 * experience.num * skill.den
                    + score * skill.den * experience.den,
                  5 * skill.den * experience.den)
  ELSE RoundFloat4(FloatSum(skill, experience, score))

\* The locals of one turn of post_job's loop, for the result at position
\* pos of the prefilter.
LocalsOf(result, pos, name, headline, skill_score, experience_score) ==
  [resume_id |-> result.id,
   pos |-> pos,
   name |-> name,
   headline |-> headline,
   semantic_score |-> result.score,
   skill_score |-> skill_score,
   experience_score |-> experience_score,
   final_score |-> FinalScore(skill_score, experience_score, result.score)]

\* candidate.get("name", result["id"])
CandidateName(metadata, id) ==
  IF id \in DOMAIN metadata THEN metadata[id].name ELSE id

\* candidate.get("headline", "Freelancer")
CandidateHeadline(metadata, id) ==
  IF id \in DOMAIN metadata THEN metadata[id].headline ELSE "Freelancer"

\* One turn of the loop: resume_metadata is read once, when the turn starts.
Locals(metadata, job, required, matches, pos) ==
  LocalsOf(matches[pos], pos,
           CandidateName(metadata, matches[pos].id),
           CandidateHeadline(metadata, matches[pos].id),
           SkillScore(GetCandidate(metadata, matches[pos].id), required),
           ExperienceScore(GetCandidate(metadata, matches[pos].id), job))

\* The list `ranked` of post_job after ranked.sort(...), with the loop's
\* locals in place of the response entries.
\* Variant: the list is not sorted.
SortByFinalScoreSkipped(loc) == loc

\* Variant: a descending sort that puts the later of two equal elements first.
SortRankLast(keys, i) ==
  1 + Cardinality({j \in 1..Len(keys) : keys[j] > keys[i]})
    + Cardinality({j \in 1..Len(keys) : j > i /\ keys[j] = keys[i]})

SortByFinalScoreUnstable(loc) ==
  Permute(loc, SubSeq([p \in 1..Len(loc) |->
                         CHOOSE i \in 1..Len(loc) :
                           SortRankLast(SubSeq([k \in 1..Len(loc) |-> loc[k].final_score],
                                               1, Len(loc)), i) = p],
                      1, Len(loc)))

\* ranked.sort(key=lambda item: item["final_score"], reverse=True)
SortByFinalScore(loc) ==
  Permute(loc, SortDescending(SubSeq([i \in 1..Len(loc) |-> loc[i].final_score],
                                     1, Len(loc))))

\* The dict that a turn of the loop appends to `ranked`.
Entry(loc) ==
  [resume_id |-> loc.resume_id,
   name |-> loc.name,
   headline |-> loc.headline,
   semantic_score |-> loc.semantic_score,
   skill_score |-> Round4(loc.skill_score.num, loc.skill_score.den),
   experience_score |-> Round4(loc.experience_score.num, loc.experience_score.den),
   final_score |-> loc.final_score]

(***************************************************************************)
(* Requests.                                                               *)
(***************************************************************************)
\* A byte of an upload that is not part of any UTF-8 character.
InvalidByte == "<ff>"

\* bytes.decode("utf-8", errors="ignore")
RECURSIVE Decode(_)
Decode(content) ==
  IF Len(content) = 0 THEN << >>
  ELSE IF content[1] = InvalidByte THEN Decode(Tail(content))
       ELSE << content[1] >> \o Decode(Tail(content))

\* Resume files: "React FastAPI 4 Docker", " python 0 77 2 " and "Dev"; the
\* uploads also include the rejected files: no bytes, blanks only,
\* undecodable bytes only.
ResumeA == << "R", "e", "a", "c", "t", " ", "F", "a", "s", "t", "A", "P", "I", " ", "4", " ", "D", "o", "c", "k", "e", "r" >>

ResumeB == << " ", "p", "y", "t", "h", "o", "n", " ", "0", " ", "7", "7", " ", "2", " " >>

ResumeC == << "D", "e", "v" >>

Contents == {ResumeA, ResumeB, << >>, << " ", " " >>, << InvalidByte >>}

\* SHA-256 digests (32 bytes each) of the texts that are embedded.
DigestOnes == [i \in 1..32 |-> 128]

DigestMinus == [i \in 1..32 |-> 127]

DigestMixed == [i \in 1..32 |-> IF i <= 8 THEN 129 ELSE 128]

\* What the library behind EmbeddingService.encode returns for a resume and
\* for a job description: a vector of the sentence-embedding model, or the
\* SHA-256 digest of the text.
ResumeExts(has_model) ==
  IF has_model THEN {<< 3, 4 >>} ELSE {DigestOnes}

RegisterExts(has_model) ==
  IF has_model THEN {<< -3, -4 >>} ELSE {DigestMinus}

JobExts(has_model) ==
  IF has_model THEN {<< 3, 4 >>, << 4, 3 >>} ELSE {DigestOnes, DigestMixed}

\* Forms of POST /freelancers/register, each with its file: skills
\* "Go, React ,,aws" with resume B, and no skills with resume C or with an
\* empty file.
FormJane ==
  [name |-> "Jane", email |-> "jane@example.com", headline |-> "Backend",
   bio |-> "", experience_years |-> 7,
   skills |-> << "G", "o", ",", " ", "R", "e", "a", "c", "t", " ", ",", ",", "a", "w", "s" >>]

FormJoe ==
  [name |-> "Joe", email |-> "joe@example.com", headline |-> "Dev",
   bio |-> "x", experience_years |-> -2, skills |-> << >>]

RegisterRequests ==
  { << FormJane, ResumeB >>, << FormJoe, ResumeC >>, << FormJoe, << >> >> }

\* Job posts: descriptions "Need dev" (too short) and "Need React dev".
DescriptionShort == << "N", "e", "e", "d", " ", "d", "e", "v" >>

DescriptionOk == << "N", "e", "e", "d", " ", "R", "e", "a", "c", "t", " ", "d", "e", "v" >>

\* Required skills ["React", "fastapi"] and ["python", "react", "aws"].
SkillsTwo == << << "R", "e", "a", "c", "t" >>, << "f", "a", "s", "t", "a", "p", "i" >> >>

SkillsThree ==
  << << "p", "y", "t", "h", "o", "n" >>, << "r", "e", "a", "c", "t" >>, << "a", "w", "s" >> >>

\* Years for which the scores of a candidate with 4 years lie halfway between
\* two multiples of 0.0001: 0.3 * (4 / 64) is 0.01875 and 4 / 640 is 0.00625.
HalfwayYears == {64, 640}

JobPost(description, required_skills, min_experience_years) ==
  [description |-> description, required_skills |-> required_skills,
   min_experience_years |-> min_experience_years]

\* Job posts with the valid description: no required skills and no years,
\* two skills and 3 years, three skills and -1 years, the halfway years; and
\* one job post whose description is too short.
Jobs ==
  { JobPost(DescriptionOk, << >>, 0),
    JobPost(DescriptionOk, SkillsTwo, 3),
    JobPost(DescriptionOk, SkillsThree, -1),
    JobPost(DescriptionShort, << >>, 0) }
    \cup {JobPost(DescriptionOk, << >>, years) : years \in HalfwayYears}

\* f"resume-{uuid.uuid4().hex[:8]}": the n-th id drawn.
UuidPool ==
  << "resume-1a2b3c01",
     "resume-1a2b3c02",
     "resume-1a2b3c03",
     "resume-1a2b3c04",
     "resume-1a2b3c05",
     "resume-1a2b3c06",
     "resume-1a2b3c07",
     "resume-1a2b3c08",
     "resume-1a2b3c09",
     "resume-1a2b3c0a",
     "resume-1a2b3c0b",
     "resume-1a2b3c0c",
     "resume-1a2b3c0d",
     "resume-1a2b3c0e",
     "resume-1a2b3c0f",
     "resume-1a2b3c10" >>

(***************************************************************************)
(* State.                                                                  *)
(***************************************************************************)
VARIABLES
  model,            \* embedder.model is set (SentenceTransformer is installed)
  rows,             \* resume_collection._rows
  resume_metadata,  \* resume_metadata
  response,         \* the response that the last step sent, if it sent one
  job,              \* the JobPost of that request, if it was POST /post-job
  ranked,           \* post_job's sorted list `ranked` with its loop locals
  file,             \* the file of that request, if it was an upload
  pending,          \* the upload whose handler is between resume_collection.add
                    \* and the write of resume_metadata
  thread,           \* the post_job call that runs in a worker thread
  call,             \* a direct call of one of the module's functions
  job_vector,       \* post_job's local job_embedding in that request, if
                    \* it was a POST /post-job that computed it
  user_sessions,    \* auth._user_sessions
  pending_oauth_states,  \* auth._pending_oauth_states
  configured,       \* GOOGLE_CLIENT_ID and GOOGLE_CLIENT_SECRET are set
  issued,           \* the number of states start_login has drawn
  web,              \* the request to the auth and UI routes that the last step
                    \* answered, with its reply
  logged_out,       \* the session tokens whose cookie GET /auth/logout deleted
  callbacks,        \* the oauth_callback calls that run in worker threads
  app               \* the application that serves the requests

\* The state of src/auth.py, with the requests that reached it.
auth_vars ==
  << user_sessions, pending_oauth_states, configured, issued, web, logged_out, callbacks, app >>

vars ==
  << libm, model, rows, resume_metadata, response, job, ranked, file, pending, thread, call,
     job_vector, user_sessions, pending_oauth_states, configured, issued, web,
     logged_out, callbacks, app >>

NoWeb == [op |-> "none"]

\* A worker thread that runs no oauth_callback.
NoCallback == [pc |-> "idle"]

\* The two applications of the repository: src/main.py, with the pages of
\* the portal among its routes, and src/frontend/scripts/main.py, which
\* mounts auth_router and ui_router.  The three handlers of the matching
\* service are the same in both.
MainApp == "src/main.py"

FrontendApp == "src/frontend/scripts/main.py"

\* src/auth.py after import: no session, no pending state.
AuthInit ==
  /\ user_sessions = << >>
  /\ pending_oauth_states = << >>
  /\ issued = 0
  /\ web = NoWeb
  /\ logged_out = {}
  /\ callbacks = [t \in 1..MaxCallbacks |-> NoCallback]

NoJob == [description |-> << >>, required_skills |-> << >>, min_experience_years |-> 0]

NoFile == [filename |-> "", content |-> << >>]

NoUpload == [op |-> "none"]

NoThread == [pc |-> "idle"]

NoCall == [fn |-> "none"]

Resp(op, status, detail, resume_id, top_matches) ==
  [op |-> op, status |-> status, detail |-> detail, resume_id |-> resume_id,
   top_matches |-> top_matches]

\* The embeddings that the requests of Spec can yield.
MainVectors ==
  UNION {{encode(has_model, ext) :
            ext \in ResumeExts(has_model) \cup RegisterExts(has_model) \cup JobExts(has_model)} :
         has_model \in BOOLEAN}

\* src/main.py after import, for requests whose embeddings are in V: pow is
\* the C library's, with any of the choices it has on the arguments on which
\* a score can depend.
InitOn(V) ==
  /\ libm \in SUBSET PowChoices(V, V)
  /\ model \in BOOLEAN
  /\ rows = << >>
  /\ resume_metadata = << >>
  /\ response = Resp("none", 0, "", "", << >>)
  /\ job = NoJob
  /\ ranked = << >>
  /\ file = NoFile
  /\ pending = NoUpload
  /\ thread = NoThread
  /\ call = NoCall
  /\ job_vector = NoVector
  /\ AuthInit
  /\ configured = FALSE
  /\ app = MainApp

Init == InitOn(MainVectors)

\* resume_metadata[resume_id] = record
SetItem(metadata, key, record) ==
  [k \in (DOMAIN metadata) \cup {key} |-> IF k = key THEN record ELSE metadata[k]]

\* Variant: only a file without bytes is rejected.
UploadErrorNoBytesOnly(content) ==
  IF Len(content) = 0 THEN "Uploaded resume is empty." ELSE ""

\* `if not content` and `if not text` of the two upload handlers: the
\* error detail, or "" when the upload is accepted.
UploadError(content) ==
  IF Len(content) = 0 THEN "Uploaded resume is empty."
  ELSE IF Len(Strip(Decode(content))) = 0 THEN "Could not parse UTF-8 text from resume."
  ELSE ""

\* The ids of the store's rows: the ids that uploads have drawn.
RowIds(rs) == {rs[i].id : i \in 1..Len(rs)}

\* The number of rows whose id an earlier row has.
Repeats(rs) == Len(rs) - Cardinality(RowIds(rs))

\* The values f"resume-{uuid.uuid4().hex[:8]}" can have in the next upload:
\* 8 hex digits that no upload has drawn or, for at most MaxRepeats uploads,
\* those of an earlier upload.  The values not drawn before are alike, and
\* the first unused one of UuidPool stands for them.
ResumeIds(rs) ==
  {UuidPool[Cardinality(RowIds(rs)) + 1]}
    \cup (IF Repeats(rs) < MaxRepeats THEN RowIds(rs) ELSE {})

\* The record upload_resume writes to resume_metadata.
UploadRecord(filename, lowered) ==
  [name |-> filename, email |-> "", headline |-> "Freelancer", bio |-> "",
   experience_years |-> extract_experience_years(lowered).value,
   skills |-> extract_skills(lowered)]

\* The exception that building the record raises, or "".
RecordRaises(lowered) == extract_experience_years(lowered).raised

\* The answer to an upload whose handler raised an exception that is not
\* an HTTPException.
ServerError(op) == Resp(op, 500, "Internal Server Error", "", << >>)

\* [skill.strip().lower() for skill in skills.split(",") if skill.strip()]
TypedSkills(skills) ==
  LET pieces == SplitComma(skills, << >>)
  IN {Lower(Strip(pieces[i])) : i \in {k \in 1..Len(pieces) : Len(Strip(pieces[k])) > 0}}

\* The record register_freelancer writes to resume_metadata.
RegisterRecord(form, text) ==
  [name |-> form.name, email |-> form.email, headline |-> form.headline,
   bio |-> form.bio,
   experience_years |->
     Max(form.experience_years, extract_experience_years(Lower(text)).value),
   skills |-> SortedStrings(TypedSkills(form.skills)
                              \cup SeqToSet(extract_skills(Lower(text))))]

\* Variant: the whole list is returned.
TopMatchesAll(sorted) ==
  SubSeq([p \in 1..Len(sorted) |-> Entry(sorted[p])], 1, Len(sorted))

\* {"top_matches": ranked[:5]}
TopMatches(sorted) ==
  SubSeq([p \in 1..Min(TopSize, Len(sorted)) |-> Entry(sorted[p])],
         1, Min(TopSize, Len(sorted)))

\* Variant: the description is not validated.
ValidJobAnyLength(j) == TRUE

\* Field(..., min_length=10) of JobPost.description
ValidJob(j) == Len(j.description) >= 10

\* Variant: the emptiness check is missing.
NoResumesNever(metadata) == FALSE

\* `if not resume_metadata`
NoResumes(metadata) == DOMAIN metadata = {}

\* The answers of POST /post-job that end the request early.
InvalidJob == Resp("post_job", 422, "string_too_short", "", << >>)

NoResumesFound ==
  Resp("post_job", 404, "No resumes found. Upload resumes first.", "", << >>)

\* Variant: the job description is kept in the store with its embedding.
StoreAfterPostJobKeepsJob(rs, j, job_embedding) ==
  add(rs, j.description, job_embedding, "job")

\* resume_collection._rows after post_job: the handler only reads it.
StoreAfterPostJob(rs, j, job_embedding) == rs

\* response, job, ranked, file and job_vector describe the request that the
\* step answers; a step that answers none leaves them blank.
NoResponse == Resp("none", 0, "", "", << >>)

NoAnswer ==
  /\ response' = NoResponse
  /\ job' = NoJob
  /\ ranked' = << >>
  /\ file' = NoFile
  /\ job_vector' = NoVector

\* The handlers run statement by statement.  upload_resume and
\* register_freelancer are coroutines of the event loop: nothing of another
\* upload runs between their statements.  post_job is a plain function, which
\* the framework runs in a worker thread: its reads of resume_metadata and of
\* the store's rows interleave with the statements of an upload.

\* upload_resume up to and including resume_collection.add(...).  resume_id
\* is the id that uuid4 yields.
UploadAdd(filename, content, ext, resume_id) ==
  /\ pending = NoUpload
  /\ IF UploadError(content) # ""
     THEN /\ response' = Resp("upload_resume", 400, UploadError(content), "", << >>)
          /\ file' = [filename |-> filename, content |-> content]
          /\ job' = NoJob
          /\ ranked' = << >>
          /\ job_vector' = NoVector
          /\ UNCHANGED << rows, pending >>
     ELSE /\ rows' = add(rows, Strip(Decode(content)), encode(model, ext), resume_id)
          /\ pending' = [op |-> "upload_resume", filename |-> filename,
                         content |-> content, resume_id |-> resume_id]
          /\ NoAnswer
  /\ UNCHANGED << libm, model, resume_metadata, thread, call >>
  /\ UNCHANGED auth_vars

\* upload_resume from `lowered = text.lower()` to its return.
UploadStore ==
  /\ pending.op = "upload_resume"
  /\ LET lowered == Lower(Strip(Decode(pending.content)))
     IN IF RecordRaises(lowered) # ""
        THEN /\ UNCHANGED resume_metadata
             /\ response' = ServerError("upload_resume")
        ELSE /\ resume_metadata' = SetItem(resume_metadata, pending.resume_id,
                                           UploadRecord(pending.filename, lowered))
             /\ response' = Resp("upload_resume", 200, "Resume stored successfully",
                                 pending.resume_id, << >>)
  /\ file' = [filename |-> pending.filename, content |-> pending.content]
  /\ job' = NoJob
  /\ ranked' = << >>
  /\ job_vector' = NoVector
  /\ pending' = NoUpload
  /\ UNCHANGED << libm, model, rows, thread, call >>
  /\ UNCHANGED auth_vars

\* register_freelancer up to and including resume_collection.add(...).
RegisterAdd(form, content, ext, resume_id) ==
  /\ pending = NoUpload
  /\ IF UploadError(content) # ""
     THEN /\ response' = Resp("register_freelancer", 400, UploadError(content), "", << >>)
          /\ file' = [filename |-> "", content |-> content]
          /\ job' = NoJob
          /\ ranked' = << >>
          /\ job_vector' = NoVector
          /\ UNCHANGED << rows, pending >>
     ELSE /\ rows' = add(rows, Strip(Decode(content)), encode(model, ext), resume_id)
          /\ pending' = [op |-> "register_freelancer", form |-> form,
                         content |-> content, resume_id |-> resume_id]
          /\ NoAnswer
  /\ UNCHANGED << libm, model, resume_metadata, thread, call >>
  /\ UNCHANGED auth_vars

\* register_freelancer from `extracted_skills = ...` to its return.
RegisterStore ==
  /\ pending.op = "register_freelancer"
  /\ LET text == Strip(Decode(pending.content))
     IN IF RecordRaises(Lower(text)) # ""
        THEN /\ UNCHANGED resume_metadata
             /\ response' = ServerError("register_freelancer")
        ELSE /\ resume_metadata' = SetItem(resume_metadata, pending.resume_id,
                                           RegisterRecord(pending.form, text))
             /\ response' = Resp("register_freelancer", 200,
                                 "Freelancer registered successfully",
                                 pending.resume_id, << >>)
  /\ file' = [filename |-> "", content |-> pending.content]
  /\ job' = NoJob
  /\ ranked' = << >>
  /\ job_vector' = NoVector
  /\ pending' = NoUpload
  /\ UNCHANGED << libm, model, rows, thread, call >>
  /\ UNCHANGED auth_vars

\* The request is validated and post_job is handed to a worker thread.
PostJobStart(j, ext) ==
  /\ thread = NoThread
  /\ IF ~ ValidJob(j)
     THEN /\ response' = InvalidJob
          /\ job' = j
          /\ ranked' = << >>
          /\ job_vector' = NoVector
          /\ file' = NoFile
          /\ UNCHANGED thread
     ELSE /\ thread' = [pc |-> "check", job |-> j, job_embedding |-> encode(model, ext),
                        semantic_matches |-> << >>, locals |-> << >>]
          /\ NoAnswer
  /\ UNCHANGED << libm, model, rows, resume_metadata, pending, call >>
  /\ UNCHANGED auth_vars

\* Variant: a matcher that re-ranks every row of the store.
PrefilterWholeStore(rs, job_embedding) == query(rs, job_embedding, Len(rs))

\* resume_collection.query(job_embedding, n_results=10)
Prefilter(rs, job_embedding) == query(rs, job_embedding, PrefilterSize)

\* `if not resume_metadata: raise HTTPException(404, ...)`
PostJobCheck ==
  /\ thread.pc = "check"
  /\ IF NoResumes(resume_metadata)
     THEN /\ response' = NoResumesFound
          /\ job' = thread.job
          /\ ranked' = << >>
          /\ job_vector' = NoVector
          /\ file' = NoFile
          /\ thread' = NoThread
     ELSE /\ thread' = [thread EXCEPT !.pc = "query"]
          /\ NoAnswer
  /\ UNCHANGED << libm, model, rows, resume_metadata, pending, call >>
  /\ UNCHANGED auth_vars

\* semantic_matches = resume_collection.query(job_embedding, n_results=10)
PostJobQuery ==
  /\ thread.pc = "query"
  /\ thread' = [thread EXCEPT !.pc = "rank",
                              !.semantic_matches = Prefilter(rows, thread.job_embedding)]
  /\ NoAnswer
  /\ UNCHANGED << libm, model, rows, resume_metadata, pending, call >>
  /\ UNCHANGED auth_vars

\* One turn of `for result in semantic_matches`: the candidate's record is
\* read and the entry is appended to `ranked`.
PostJobTurn ==
  /\ thread.pc = "rank"
  /\ Len(thread.locals) < Len(thread.semantic_matches)
  /\ thread' = [thread EXCEPT !.locals =
                  Append(@, Locals(resume_metadata, thread.job,
                                   RequiredSet(thread.job.required_skills),
                                   thread.semantic_matches, Len(thread.locals) + 1))]
  /\ NoAnswer
  /\ UNCHANGED << libm, model, rows, resume_metadata, pending, call >>
  /\ UNCHANGED auth_vars

\* The loop is over: ranked.sort(...) and the return.
PostJobReturn ==
  /\ thread.pc = "rank"
  /\ Len(thread.locals) = Len(thread.semantic_matches)
  /\ ranked' = SortByFinalScore(thread.locals)
  /\ response' = Resp("post_job", 200, "", "", TopMatches(ranked'))
  /\ rows' = StoreAfterPostJob(rows, thread.job, thread.job_embedding)
  /\ job' = thread.job
  /\ job_vector' = thread.job_embedding
  /\ file' = NoFile
  /\ thread' = NoThread
  /\ UNCHANGED << libm, model, resume_metadata, pending, call >>
  /\ UNCHANGED auth_vars

Filenames == {"resume.txt"}

Next ==
  \/ /\ Len(rows) < MaxRows
     /\ \E filename \in Filenames, content \in Contents, ext \in ResumeExts(model),
            resume_id \in ResumeIds(rows) :
          UploadAdd(filename, content, ext, resume_id)
  \/ UploadStore
  \/ /\ Len(rows) < MaxRows
     /\ \E req \in RegisterRequests, ext \in RegisterExts(model),
            resume_id \in ResumeIds(rows) :
          RegisterAdd(req[1], req[2], ext, resume_id)
  \/ RegisterStore
  \/ \E j \in Jobs, ext \in JobExts(model) : PostJobStart(j, ext)
  \/ PostJobCheck
  \/ PostJobQuery
  \/ PostJobTurn
  \/ PostJobReturn

Spec == Init /\ [][Next]_vars

(***************************************************************************)
(* A larger store: the fallback embedder, two kinds of resume and two      *)
(* job posts, up to MaxBulkRows uploads.                                   *)
(***************************************************************************)
BulkUploads ==
  { << ResumeA, DigestMinus >>, << ResumeC, DigestMixed >> }

BulkJobs ==
  { << [description |-> DescriptionOk,
        required_skills |-> << <<"R", "e", "a", "c", "t">>, <<"f", "a", "s", "t", "a", "p", "i">> >>,
        min_experience_years |-> 3], DigestOnes >>,
    << [description |-> DescriptionOk, required_skills |-> << >>,
        min_experience_years |-> 0], DigestMixed >> }

BulkVectors ==
  {encode(FALSE, up[2]) : up \in BulkUploads} \cup {encode(FALSE, jb[2]) : jb \in BulkJobs}

InitBulk == InitOn(BulkVectors) /\ model = FALSE

NextBulk ==
  \/ /\ Len(rows) < MaxBulkRows
     /\ \E filename \in Filenames, up \in BulkUploads, resume_id \in ResumeIds(rows) :
          UploadAdd(filename, up[1], up[2], resume_id)
  \/ UploadStore
  \/ \E jb \in BulkJobs : PostJobStart(jb[1], jb[2])
  \/ PostJobCheck
  \/ PostJobQuery
  \/ PostJobTurn
  \/ PostJobReturn

SpecBulk == InitBulk /\ [][NextBulk]_vars

(***************************************************************************)
(* The scenario of test_post_job_returns_ranked_matches: the two resumes   *)
(* of the test, uploaded once each in either order, and the test's job     *)
(* post, with the embeddings drawn from vectors whose cosines cover -1, 0  *)
(* and 1.  The second upload draws new hex digits or those of the first.   *)
(***************************************************************************)
\* "React FastAPI developer with 4 years experience and Docker"
TestResumeA ==
  << "R", "e", "a", "c", "t", " ", "F", "a", "s", "t", "A", "P", "I", " ", "d",
     "e", "v", "e", "l", "o", "p", "e", "r", " ", "w", "i", "t", "h", " ", "4",
     " ", "y", "e", "a", "r", "s", " ", "e", "x", "p", "e", "r", "i", "e", "n",
     "c", "e", " ", "a", "n", "d", " ", "D", "o", "c", "k", "e", "r" >>

\* "Python Django engineer with 2 years experience"
TestResumeB ==
  << "P", "y", "t", "h", "o", "n", " ", "D", "j", "a", "n", "g", "o", " ", "e",
     "n", "g", "i", "n", "e", "e", "r", " ", "w", "i", "t", "h", " ", "2", " ",
     "y", "e", "a", "r", "s", " ", "e", "x", "p", "e", "r", "i", "e", "n", "c",
     "e" >>

\* "Looking for React and FastAPI developer"
TestJob ==
  [description |->
     << "L", "o", "o", "k", "i", "n", "g", " ", "f", "o", "r", " ", "R", "e", "a",
        "c", "t", " ", "a", "n", "d", " ", "F", "a", "s", "t", "A", "P", "I", " ",
        "d", "e", "v", "e", "l", "o", "p", "e", "r" >>,
   required_skills |-> << << "r", "e", "a", "c", "t" >>,
                          << "f", "a", "s", "t", "a", "p", "i" >> >>,
   min_experience_years |-> 3]

PairExts(has_model) ==
  IF has_model
  THEN {<< 3, 4 >>, << -3, -4 >>, << 4, 3 >>, << 4, -3 >>, << 0, 0 >>}
  ELSE {DigestOnes, DigestMinus, DigestMixed}

\* A row of the store holds the text.
Stored(rs, text) == \E i \in 1..Len(rs) : rs[i].document = text

NextPair ==
  \/ /\ ~ Stored(rows, TestResumeA)
     /\ \E ext \in PairExts(model), resume_id \in ResumeIds(rows) :
          UploadAdd("resume1.txt", TestResumeA, ext, resume_id)
  \/ /\ ~ Stored(rows, TestResumeB)
     /\ \E ext \in PairExts(model), resume_id \in ResumeIds(rows) :
          UploadAdd("resume2.txt", TestResumeB, ext, resume_id)
  \/ UploadStore
  \/ /\ Stored(rows, TestResumeA)
     /\ Stored(rows, TestResumeB)
     /\ pending = NoUpload
     /\ \E ext \in PairExts(model) : PostJobStart(TestJob, ext)
  \/ PostJobCheck
  \/ PostJobQuery
  \/ PostJobTurn
  \/ PostJobReturn

PairVectors ==
  UNION {{encode(has_model, ext) : ext \in PairExts(has_model)} : has_model \in BOOLEAN}

InitPair == InitOn(PairVectors)

SpecPair == InitPair /\ [][NextPair]_vars

(***************************************************************************)
(* The ids come from uuid4, so two uploads can draw the same 8 hex digits. *)
(***************************************************************************)
\* "2" followed by SUPERSCRIPT TWO, then " Dev"
ResumeSup == << "2", SuperTwo, " ", "D", "e", "v" >>

StepUploads ==
  { << "resume1.txt", ResumeA, DigestOnes >>,
    << "resume2.txt", ResumeB, DigestMinus >>,
    << "resume3.txt", ResumeSup, DigestMixed >>,
    << "resume4.txt", << " " >>, DigestOnes >> }

\* The values of f"resume-{uuid.uuid4().hex[:8]}" that are drawn.
StepIds == {UuidPool[1], UuidPool[2]}

StepJobs ==
  { << [description |-> DescriptionOk,
        required_skills |-> << <<"R", "e", "a", "c", "t">>, <<"f", "a", "s", "t", "a", "p", "i">> >>,
        min_experience_years |-> 3], DigestOnes >>,
    << [description |-> DescriptionShort, required_skills |-> << >>,
        min_experience_years |-> 0], DigestOnes >> }

StepVectors ==
  {encode(FALSE, up[3]) : up \in StepUploads} \cup {encode(FALSE, jb[2]) : jb \in StepJobs}

InitSteps == InitOn(StepVectors) /\ model = FALSE

NextSteps ==
  \/ /\ Len(rows) < MaxStepRows
     /\ \E up \in StepUploads, resume_id \in StepIds :
          UploadAdd(up[1], up[2], up[3], resume_id)
  \/ UploadStore
  \/ \E jb \in StepJobs : PostJobStart(jb[1], jb[2])
  \/ PostJobCheck
  \/ PostJobQuery
  \/ PostJobTurn
  \/ PostJobReturn

SpecSteps == InitSteps /\ [][NextSteps]_vars

(***************************************************************************)
(* Direct calls of the module's functions: cosine_similarity,              *)
(* InMemoryCollection.query, _extract_experience_years and                 *)
(* _extract_skills, each on arguments drawn from a small set.              *)
(***************************************************************************)
\* Vectors of 0 to 2 components, and one of 3.
VectorValues == {-1, 0, 2}

WholeVectors ==
  {<< >>} \cup {<< x >> : x \in VectorValues}
    \cup {<< x, y >> : x, y \in VectorValues} \cup {<< 2, 0, -1 >>}

\* Two digests whose fallback embeddings have the cosine -0.03125, half way
\* between -0.0313 and -0.0312.
DigestEven == [i \in 1..32 |-> 128]

DigestHalf ==
  << 127, 127, 126, 126, 128, 124, 127, 125, 128, 125, 130, 129, 125, 131, 124, 128,
     127, 131, 130, 124, 130, 128, 128, 126, 127, 128, 129, 130, 127, 126, 127, 130 >>

FallbackVectors == {fallback_embedding(d, FallbackDim) : d \in {DigestEven, DigestHalf}}

Vectors == {Floats(v) : v \in WholeVectors} \cup FallbackVectors

\* Stores of one or two rows, built with InMemoryCollection.add.  The cosine
\* of << 1, -7, 2, 5, -9 >> and << 5, 7, -7, 1, 6 >> is -107 / 160, half way
\* between -0.6688 and -0.6687; that of << 244, 245, 3671, 86, 11, 3 >> and
\* << 1, 1, 0, 0, 0, 0 >> is 0.09375, half way between 0.0937 and 0.0938.
HalfwayStored == {<< 1, -7, 2, 5, -9 >>, << 244, 245, 3671, 86, 11, 3 >>}

HalfwayQueries == {<< 5, 7, -7, 1, 6 >>, << 1, 1, 0, 0, 0, 0 >>}

StoredVectors ==
  {Floats(v) : v \in {<< 2, 0 >>, << 0, 2 >>, << -1, 2 >>, << 2 >>} \cup HalfwayStored}

CallStores ==
  {add(<< >>, << "a" >>, v, "id-1") : v \in StoredVectors}
    \cup {add(add(<< >>, << "a" >>, v, "id-1"), << "b" >>, w, "id-2") :
            v, w \in StoredVectors}

QueryVectors == {Floats(v) : v \in {<< 2, 0 >>, << -1, 2, 2 >>, << >>} \cup HalfwayQueries}

\* The arguments of pow on which the score of a call can depend.
PowArgs == PowChoices(Vectors, Vectors) \cup PowChoices(QueryVectors, StoredVectors)

\* n_results: fewer than the rows, more, and a negative number.
QueryResults == {1, 5, -1}

\* Texts of at most two tokens for _extract_experience_years: "0", "1",
\* "50", "51", "007", "dev", "4y", "3.5" and "2" followed by SUPERSCRIPT TWO.
YearTokens ==
  { << "0" >>, << "1" >>, << "5", "0" >>, << "5", "1" >>, << "0", "0", "7" >>,
    << "d", "e", "v" >>, << "4", "y" >>, << "3", ".", "5" >>, << "2", SuperTwo >> }

YearTexts ==
  {<< >>} \cup {<< " " >> \o t : t \in YearTokens}
    \cup {t \o << " ", " " >> \o u : t, u \in YearTokens}

\* Texts of at most two pieces for _extract_skills.
SkillPieces ==
  { << "r", "e", "a", "c", "t" >>, << "R", "e", "a", "c", "t" >>,
    << "n", "o", "d", "e", "j", "s" >>, << "n", "e", "x", "t", ".", "j", "s" >>,
    << "a", "w", "s", ",", "d", "o", "c", "k", "e", "r" >>, << " " >>,
    << "f", "a", "s", "t" >>, << "a", "p", "i" >>, << "j", "a", "v", "a" >> }

SkillTexts ==
  {<< >>} \cup SkillPieces \cup {t \o u : t, u \in SkillPieces}

\* The outcome of a call that has not returned.
NoOutcome == [raised |-> "pending", value |-> 0]

Called(fn, args) == [fn |-> fn, args |-> args, pc |-> "called", outcome |-> NoOutcome]

Calls ==
  {Called("cosine_similarity", << a, b >>) : a, b \in Vectors}
    \cup {Called("query", << rs, q, n >>) : rs \in CallStores, q \in QueryVectors,
                                                n \in QueryResults}
    \cup {Called("_extract_experience_years", << t >>) : t \in YearTexts}
    \cup {Called("_extract_skills", << t >>) : t \in SkillTexts}

InitCalls ==
  /\ libm \in SUBSET PowArgs
  /\ model = FALSE
  /\ rows = << >>
  /\ resume_metadata = << >>
  /\ response = Resp("none", 0, "", "", << >>)
  /\ job = NoJob
  /\ ranked = << >>
  /\ file = NoFile
  /\ pending = NoUpload
  /\ thread = NoThread
  /\ call \in Calls
  /\ job_vector = NoVector
  /\ AuthInit
  /\ configured = FALSE
  /\ app = MainApp

Return(outcome) ==
  /\ call.pc = "called"
  /\ call' = [call EXCEPT !.pc = "done", !.outcome = outcome]
  /\ UNCHANGED << libm, model, rows, resume_metadata, response, job, ranked, file, pending, thread,
                  job_vector >>
  /\ UNCHANGED auth_vars

CallCosineSimilarity ==
  /\ call.fn = "cosine_similarity"
  /\ Return(Returns(cosine_similarity(call.args[1], call.args[2])))

CallQuery ==
  /\ call.fn = "query"
  /\ Return(Returns(query(call.args[1], call.args[2], call.args[3])))

CallExtractExperienceYears ==
  /\ call.fn = "_extract_experience_years"
  /\ Return(extract_experience_years(call.args[1]))

CallExtractSkills ==
  /\ call.fn = "_extract_skills"
  /\ Return(Returns(extract_skills(call.args[1])))

NextCalls ==
  \/ CallCosineSimilarity
  \/ CallQuery
  \/ CallExtractExperienceYears
  \/ CallExtractSkills

SpecCalls == InitCalls /\ [][NextCalls]_vars

(***************************************************************************)
(* Sign-in (src/auth.py) and GET /ui/resume, in either application.        *)
(* secrets.token_urlsafe never returns a value twice and its values cannot *)
(* be guessed: a request carries a state or a session token only if a      *)
(* reply has handed it out, or a value that was never drawn.               *)
(***************************************************************************)
\* The rest of the state: src/main.py.
main_vars ==
  << libm, model, rows, resume_metadata, response, job, ranked, file, pending, thread, call,
     job_vector >>

\* secrets.token_urlsafe(16) and secrets.token_urlsafe(24): the n-th value.
StatePool == << "state-1", "state-2", "state-3" >>

TokenPool == << "token-1", "token-2", "token-3" >>

\* A value that secrets.token_urlsafe never returned.
Forged == "forged"

\* The provider of the path, and provider.lower().
Providers == {"google", "Google", "apple", "github"}

ProviderLower ==
  ("google" :> "google") @@ ("Google" :> "google") @@ ("apple" :> "apple")
    @@ ("github" :> "github")

\* provider.title()
ProviderTitle == ("google" :> "Google") @@ ("apple" :> "Apple")

NextPages == {"/ui/resume", "/ui/jobs"}

\* Python's None.
None == [none |-> TRUE]

\* dict.get(key): the value, or None.
Get(table, key) == IF key \in DOMAIN table THEN table[key] ELSE None

\* The table after dict.pop(key, None).
\* Variant: the key is looked up and stays in the table.
PopKeeps(table, key) == table

Pop(table, key) == [k \in (DOMAIN table) \ {key} |-> table[k]]

\* get_authenticated_user(request), for the value of the auth cookie ("" when
\* the request has none).
get_authenticated_user(sessions, token) ==
  IF token = "" THEN None ELSE Get(sessions, token)

\* A request to the auth and UI routes with its reply: the lowercased
\* provider of the path, the state of the query (for start_login: the state
\* in the redirect), the auth cookie sent, the status, the detail or error
\* message, the Location header and the auth cookie that the reply sets.
Web(op, provider, state, cookie, status, detail, location, set_cookie) ==
  [op |-> op, provider |-> provider, state |-> state, cookie |-> cookie,
   status |-> status, detail |-> detail, location |-> location,
   set_cookie |-> set_cookie]

\* The states that replies have handed out: start_login puts the state in
\* the redirect to Google, so only when Google sign-in is configured.
KnownStates == IF configured THEN {StatePool[k] : k \in 1..issued} ELSE {}

\* The state of a callback's query: none, one handed out, or a forged one.
CallbackStates == KnownStates \cup {"", Forged}

\* The auth cookie of a request: none, a session token, or a forged one.
Cookies == (DOMAIN user_sessions) \cup {"", Forged}

\* The rest of a callback's query string.
CallbackQueries ==
  { [code |-> "c0de", error |-> "", name |-> "", email |-> ""],
    [code |-> "", error |-> "", name |-> "", email |-> ""],
    [code |-> "c0de", error |-> "access_denied", name |-> "", email |-> ""],
    [code |-> "", error |-> "", name |-> "Eve", email |-> "eve@x.io"],
    [code |-> "c0de", error |-> "", name |-> "Eve", email |-> "eve@x.io"] }

\* What Google answers to the code exchange: a payload with an access
\* token, a payload without one, or a failure of the request.
TokenAnswers == {"access_token", "no_access_token", "exception"}

\* What Google answers to the userinfo request: a profile with name and
\* e-mail address, one with the address only, one with neither, or a
\* failure of the request.
ProfileAnswers ==
  { [raised |-> FALSE, profile |-> ("name" :> "Gina") @@ ("email" :> "gina@gmail.com")],
    [raised |-> FALSE, profile |-> ("email" :> "gina@gmail.com")],
    [raised |-> FALSE, profile |-> << >>],
    [raised |-> TRUE, profile |-> << >>] }

\* dict.get(key, default)
GetOr(table, key, default) == IF key \in DOMAIN table THEN table[key] ELSE default

\* The form of POST /auth/mock-consent/{provider}.
ConsentForms == { [name |-> "Eve", email |-> "eve@x.io"] }

\* session_token = secrets.token_urlsafe(24)
NextSessionToken == TokenPool[Cardinality(DOMAIN user_sessions) + 1]

\* The threads that run an oauth_callback.
InFlight == {t \in DOMAIN callbacks : callbacks[t] # NoCallback}

\* The thread that takes the next call: the first one that is free.
FreeThread ==
  CHOOSE t \in (DOMAIN callbacks) \ InFlight : \A u \in (DOMAIN callbacks) \ InFlight : t <= u

\* The session table has room for one more session beside those that the
\* running callbacks will create.
Room == Cardinality(DOMAIN user_sessions) + Cardinality(InFlight) < MaxSessions

\* No request to the routes of src/auth.py and src/ui_routes.py computes a
\* score: pow is not called.
InitAuth ==
  /\ libm = {}
  /\ model = FALSE
  /\ rows = << >>
  /\ resume_metadata = << >>
  /\ response = Resp("none", 0, "", "", << >>)
  /\ job = NoJob
  /\ ranked = << >>
  /\ file = NoFile
  /\ pending = NoUpload
  /\ thread = NoThread
  /\ call = NoCall
  /\ job_vector = NoVector
  /\ AuthInit
  /\ configured \in BOOLEAN
  /\ app \in {MainApp, FrontendApp}

\* The handlers of auth_router and ui_router are plain functions, which the
\* framework runs in worker threads.  start_login, mock_consent_submit,
\* logout and resume_page read or write the two tables in one statement:
\* what other threads do around that statement does not show, and each is one
\* step.  oauth_callback pops the state, waits for Google's two answers and
\* then writes the session: it is a step for each of these.

\* GET /auth/start/{provider}?next=...
start_login(provider, next) ==
  /\ app = FrontendApp
  /\ IF ProviderLower[provider] # "google"
     THEN /\ web' = Web("start_login", ProviderLower[provider], "", "", 404,
                        "Provider not supported", "", "")
          /\ UNCHANGED << pending_oauth_states, issued >>
     ELSE /\ issued < MaxStates
          /\ pending_oauth_states' =
               SetItem(pending_oauth_states, StatePool[issued + 1],
                       [provider |-> ProviderLower[provider], next |-> next])
          /\ issued' = issued + 1
          /\ web' = IF configured
                      THEN Web("start_login", "google", StatePool[issued + 1], "", 307, "",
                               "https://accounts.google.com/o/oauth2/v2/auth", "")
                      ELSE Web("start_login", "google", "", "", 503,
                               "Google OAuth is not configured", "", "")
  /\ UNCHANGED << user_sessions, configured, logged_out, callbacks, app >>
  /\ UNCHANGED main_vars

\* POST /auth/mock-consent/{provider}
mock_consent_submit(provider, form, next) ==
  /\ app = FrontendApp
  /\ IF ProviderLower[provider] # "apple"
     THEN /\ web' = Web("mock_consent_submit", ProviderLower[provider], "", "", 404,
                        "Provider not supported", "", "")
          /\ UNCHANGED user_sessions
     ELSE /\ Room
          /\ user_sessions' =
               SetItem(user_sessions, NextSessionToken,
                       [name |-> form.name, email |-> form.email,
                        provider |-> ProviderLower[provider]])
          /\ web' = Web("mock_consent_submit", "apple", "", "", 302, "", next,
                        NextSessionToken)
  /\ UNCHANGED << pending_oauth_states, configured, issued, logged_out, callbacks, app >>
  /\ UNCHANGED main_vars

\* A reply of oauth_callback that ends the request without a session.
CallbackError(provider, state, status, detail) ==
  web' = Web("oauth_callback", provider, state, "", status, detail, "", "")

\* resolved_name = name or f"{provider.title()} User"
ResolvedName(provider, name) ==
  IF name # "" THEN name ELSE ProviderTitle[provider] \o " User"

\* resolved_email = email or f"user@{provider}.login"
ResolvedEmail(provider, email) ==
  IF email # "" THEN email ELSE "user@" \o provider \o ".login"

\* The locals of an oauth_callback call that goes on after its checks: for
\* google it sends the code to Google next, for apple it draws the session
\* token next.
CallbackLocals(provider, state, q, found) ==
  [pc |-> IF provider = "google" THEN "exchange" ELSE "session",
   provider |-> provider, state |-> state, pending |-> found,
   resolved_name |-> ResolvedName(provider, q.name),
   resolved_email |-> ResolvedEmail(provider, q.email)]

\* GET /auth/callback/{provider}?state=...&code=...&error=...&email=...&name=...
\* from `provider = provider.lower()` and the pop of the state up to the
\* reply of a failed check or, past the checks, to the call of
\* _exchange_google_code_for_token (google) or the draw of the session token
\* (apple).
CallbackPop(provider, state, q) ==
  /\ app = FrontendApp
  /\ pending_oauth_states' = Pop(pending_oauth_states, state)
  /\ IF ProviderLower[provider] \notin {"google", "apple"}
          \/ Get(pending_oauth_states, state) = None
     THEN /\ CallbackError(ProviderLower[provider], state, 400, "Invalid OAuth callback")
          /\ UNCHANGED callbacks
     ELSE IF q.error # ""
     THEN /\ CallbackError(ProviderLower[provider], state, 400, "Provider returned error")
          /\ UNCHANGED callbacks
     ELSE IF ProviderLower[provider] = "google" /\ ~configured
     THEN /\ CallbackError("google", state, 503, "Google OAuth is not configured")
          /\ UNCHANGED callbacks
     ELSE IF ProviderLower[provider] = "google" /\ q.code = ""
     THEN /\ CallbackError("google", state, 400,
                           "Missing authorization code from Google callback.")
          /\ UNCHANGED callbacks
     ELSE /\ Room
          /\ InFlight # DOMAIN callbacks
          /\ callbacks' =
               [callbacks EXCEPT ![FreeThread] =
                  CallbackLocals(ProviderLower[provider], state, q,
                                 Get(pending_oauth_states, state))]
          /\ web' = NoWeb
  /\ UNCHANGED << user_sessions, configured, issued, logged_out, app >>
  /\ UNCHANGED main_vars

\* token_payload = _exchange_google_code_for_token(code) has answered, and
\* the check of the access token.
CallbackExchange(t, answer) ==
  /\ callbacks[t].pc = "exchange"
  /\ IF answer = "exception"
     THEN /\ CallbackError("google", callbacks[t].state, 400, "Google sign-in failed")
          /\ callbacks' = [callbacks EXCEPT ![t] = NoCallback]
     ELSE IF answer = "no_access_token"
     THEN /\ CallbackError("google", callbacks[t].state, 400,
                           "Google token exchange failed: no access token.")
          /\ callbacks' = [callbacks EXCEPT ![t] = NoCallback]
     ELSE /\ callbacks' = [callbacks EXCEPT ![t].pc = "userinfo"]
          /\ web' = NoWeb
  /\ UNCHANGED << user_sessions, pending_oauth_states, configured, issued, logged_out, app >>
  /\ UNCHANGED main_vars

\* profile = _fetch_google_user_info(access_token) has answered:
\* resolved_name = profile.get("name", resolved_name), and the same for the
\* e-mail address.
CallbackFetch(t, answer) ==
  /\ callbacks[t].pc = "userinfo"
  /\ IF answer.raised
     THEN /\ CallbackError("google", callbacks[t].state, 400, "Google sign-in failed")
          /\ callbacks' = [callbacks EXCEPT ![t] = NoCallback]
     ELSE /\ callbacks' =
               [callbacks EXCEPT
                  ![t].pc = "session",
                  ![t].resolved_name = GetOr(answer.profile, "name", @),
                  ![t].resolved_email = GetOr(answer.profile, "email", @)]
          /\ web' = NoWeb
  /\ UNCHANGED << user_sessions, pending_oauth_states, configured, issued, logged_out, app >>
  /\ UNCHANGED main_vars

\* oauth_callback from `session_token = secrets.token_urlsafe(24)` on.
CallbackSession(t) ==
  /\ callbacks[t].pc = "session"
  /\ user_sessions' =
       SetItem(user_sessions, NextSessionToken,
               [name |-> callbacks[t].resolved_name,
                email |-> callbacks[t].resolved_email,
                provider |-> callbacks[t].provider])
  /\ web' = Web("oauth_callback", callbacks[t].provider, callbacks[t].state, "", 302, "",
                callbacks[t].pending.next, NextSessionToken)
  /\ callbacks' = [callbacks EXCEPT ![t] = NoCallback]
  /\ UNCHANGED << pending_oauth_states, configured, issued, logged_out, app >>
  /\ UNCHANGED main_vars

\* GET /auth/logout, sent with the auth cookie `cookie`: the reply tells the
\* browser to delete the cookie.
logout(cookie) ==
  /\ app = FrontendApp
  /\ web' = Web("logout", "", "", cookie, 302, "", "/ui", "")
  /\ logged_out' = IF cookie = "" THEN logged_out ELSE logged_out \cup {cookie}
  /\ UNCHANGED << user_sessions, pending_oauth_states, configured, issued, callbacks, app >>
  /\ UNCHANGED main_vars

\* GET /ui/resume of ui_router, sent with the auth cookie `cookie`.
resume_page(cookie) ==
  /\ app = FrontendApp
  /\ web' = IF get_authenticated_user(user_sessions, cookie) = None
              THEN Web("resume_page", "", "", cookie, 302, "",
                       "/auth/login?next=/ui/resume", "")
              ELSE Web("resume_page", "", "", cookie, 200, "", "", "")
  /\ UNCHANGED << user_sessions, pending_oauth_states, configured, issued, logged_out,
                  callbacks, app >>
  /\ UNCHANGED main_vars

\* GET /ui/resume of src/main.py, sent with the auth cookie `cookie`: the
\* page, whatever the request carries.
resume_portal(cookie) ==
  /\ app = MainApp
  /\ web' = Web("resume_portal", "", "", cookie, 200, "", "", "")
  /\ UNCHANGED << user_sessions, pending_oauth_states, configured, issued, logged_out,
                  callbacks, app >>
  /\ UNCHANGED main_vars

NextAuth ==
  \/ \E provider \in Providers, next \in NextPages : start_login(provider, next)
  \/ \E provider \in Providers, form \in ConsentForms, next \in NextPages :
       mock_consent_submit(provider, form, next)
  \/ \E provider \in Providers, state \in CallbackStates, q \in CallbackQueries :
       CallbackPop(provider, state, q)
  \/ \E t \in DOMAIN callbacks, answer \in TokenAnswers : CallbackExchange(t, answer)
  \/ \E t \in DOMAIN callbacks, answer \in ProfileAnswers : CallbackFetch(t, answer)
  \/ \E t \in DOMAIN callbacks : CallbackSession(t)
  \/ \E cookie \in Cookies : logout(cookie)
  \/ \E cookie \in Cookies : resume_page(cookie)
  \/ \E cookie \in Cookies : resume_portal(cookie)

SpecAuth == InitAuth /\ [][NextAuth]_vars

(***************************************************************************)
(* More candidates than the semantic prefilter keeps: uploads of two       *)
(* resumes with the sentence-embedding model installed, and one job post.  *)
(* The resume with the skills and the years the job asks for is the one    *)
(* whose embedding is further from the job's; it is uploaded at most       *)
(* MaxSkilled times.                                                       *)
(***************************************************************************)
\* "React FastAPI 4 Docker" with an embedding whose cosine with the job's is
\* 0.96, and "Dev" with the job's own embedding.
SkilledUpload == << ResumeA, << 4, 3 >> >>

PrefilterUploads == { SkilledUpload, << ResumeC, << 3, 4 >> >> }

\* The number of rows that hold the skilled resume.
Skilled(rs) == Cardinality({i \in 1..Len(rs) : rs[i].embedding = Floats(SkilledUpload[2])})

PrefilterJob ==
  << [description |-> DescriptionOk,
      required_skills |-> << <<"r", "e", "a", "c", "t">>, <<"f", "a", "s", "t", "a", "p", "i">> >>,
      min_experience_years |-> 3], << 3, 4 >> >>

PrefilterVectors ==
  {encode(TRUE, up[2]) : up \in PrefilterUploads} \cup {encode(TRUE, PrefilterJob[2])}

InitPrefilter == InitOn(PrefilterVectors) /\ model = TRUE

NextPrefilter ==
  \/ /\ Len(rows) < MaxPrefilterRows
     /\ \E filename \in Filenames, up \in PrefilterUploads, resume_id \in ResumeIds(rows) :
          /\ up = SkilledUpload => Skilled(rows) < MaxSkilled
          /\ UploadAdd(filename, up[1], up[2], resume_id)
  \/ UploadStore
  \/ PostJobStart(PrefilterJob[1], PrefilterJob[2])
  \/ PostJobCheck
  \/ PostJobQuery
  \/ PostJobTurn
  \/ PostJobReturn

SpecPrefilter == InitPrefilter /\ [][NextPrefilter]_vars

(***************************************************************************)
(* The store on its own: a sequence of InMemoryCollection.add and          *)
(* InMemoryCollection.query calls on one collection.  The ids are the      *)
(* caller's, so an id can be added twice.                                  *)
(***************************************************************************)
\* The documents with their embeddings: the first two point the same way,
\* so they score the same against any query.
StoreItems ==
  { [document |-> << "a" >>, embedding |-> Floats(<< 2, 0 >>)],
    [document |-> << "b" >>, embedding |-> Floats(<< 1, 0 >>)],
    [document |-> << "c" >>, embedding |-> Floats(<< -1, 2 >>)] }

StoreIds == {"id-1", "id-2"}

StoreQueries == {Floats(<< 2, 0 >>), Floats(<< 0, 2 >>)}

\* n_results: none, fewer than the rows, the prefilter's 10, and a negative
\* number.
StoreResults == {0, 1, 2, PrefilterSize, -1}

StoreVectors == {item.embedding : item \in StoreItems} \cup StoreQueries

InitStore == InitOn(StoreVectors) /\ model = FALSE

\* resume_collection.add(documents=[doc], embeddings=[emb], ids=[item_id])
StoreAdd(item, item_id) ==
  /\ Len(rows) < MaxStoreRows
  /\ rows' = add(rows, item.document, item.embedding, item_id)
  /\ call' = [fn |-> "add", args |-> << item.document, item.embedding, item_id >>,
              pc |-> "done", outcome |-> Returns(0)]
  /\ UNCHANGED << libm, model, resume_metadata, response, job, ranked, file, pending, thread,
                  job_vector >>
  /\ UNCHANGED auth_vars

\* resume_collection.query(query_embedding, n_results)
StoreQuery(query_embedding, n_results) ==
  /\ call' = [fn |-> "query", args |-> << rows, query_embedding, n_results >>,
              pc |-> "done", outcome |-> Returns(query(rows, query_embedding, n_results))]
  /\ UNCHANGED << libm, model, rows, resume_metadata, response, job, ranked, file, pending,
                  thread, job_vector >>
  /\ UNCHANGED auth_vars

NextStore ==
  \/ \E item \in StoreItems, item_id \in StoreIds : StoreAdd(item, item_id)
  \/ \E q \in StoreQueries, n \in StoreResults : StoreQuery(q, n)

SpecStore == InitStore /\ [][NextStore]_vars

(***************************************************************************)
(* Properties.                                                             *)
(***************************************************************************)
\* The last step answered a POST /post-job with 200.
PostJobOk == response.op = "post_job" /\ response.status = 200

Top == response.top_matches

\* C1: a valid job post that finds no candidate ingested (no attribute
\* record written) is answered with 404 "No resumes found. Upload resumes
\* first.", and no 200 answer carries an empty top_matches list.
C1_NoCandidatesError ==
  /\ (response.op = "post_job" /\ ValidJob(job) /\ NoResumes(resume_metadata))
       => /\ response.status = 404
          /\ response.detail = "No resumes found. Upload resumes first."
  /\ PostJobOk => Top # << >>

C1_Witness ==
  /\ response.op = "post_job" /\ ValidJob(job) /\ rows = << >>
  /\ response.status = 404

\* C2: the entries of top_matches are in non-increasing order of final_score.
C2_Descending ==
  PostJobOk =>
    \A i \in 1..(Len(Top) - 1) : Top[i].final_score >= Top[i + 1].final_score

C2_Witness ==
  /\ PostJobOk
  /\ Len(Top) >= 3
  /\ \E i \in 1..(Len(Top) - 1) : Top[i].final_score > Top[i + 1].final_score
  /\ \E i, k \in 1..Len(Top) : i < k /\ ranked[i].pos > ranked[k].pos

\* C3 as stated: every final_score lies in [0, 1].
C3_Original ==
  PostJobOk =>
    \A i \in 1..Len(Top) : Top[i].final_score >= 0 /\ Top[i].final_score <= 10000

\* C3, amended: every final_score lies in [-0.2, 1].
C3_FinalScoreRange ==
  PostJobOk =>
    \A i \in 1..Len(Top) : Top[i].final_score >= -2000 /\ Top[i].final_score <= 10000

C3_Witness ==
  /\ PostJobOk
  /\ \E i \in 1..Len(Top) : Top[i].final_score = -2000
  /\ \E i \in 1..Len(Top) : Top[i].final_score = 10000

\* C4 as stated: every semantic_score lies in [0, 1].
C4_Original ==
  PostJobOk =>
    \A i \in 1..Len(Top) : Top[i].semantic_score >= 0 /\ Top[i].semantic_score <= 10000

\* C4, amended: every semantic_score lies in [-1, 1].
C4_SemanticRange ==
  PostJobOk =>
    \A i \in 1..Len(Top) :
      Top[i].semantic_score >= -10000 /\ Top[i].semantic_score <= 10000

C4_Witness ==
  /\ PostJobOk
  /\ \E i \in 1..Len(Top) : Top[i].semantic_score < 0
  /\ \E i \in 1..Len(Top) : Top[i].semantic_score > 0

\* C5: final_score is 0.5 * skill_score + 0.3 * experience_score
\* + 0.2 * semantic_score rounded to 4 decimals, over the unrounded skill and
\* experience scores of the candidate and the rounded semantic score: it is
\* a nearest multiple of 0.0001 to that sum.
C5_FinalScoreFormula ==
  PostJobOk =>
    \A i \in 1..Len(Top) :
      LET s == ranked[i].skill_score
          e == ranked[i].experience_score
          d == 5 * s.den * e.den
          n == 25000 * s.num * e.den + 15000 * e.num * s.den
                 + Top[i].semantic_score * s.den * e.den
      IN /\ Top[i].resume_id = ranked[i].resume_id
         /\ Top[i].semantic_score = ranked[i].semantic_score
         /\ 2 * Abs(Top[i].final_score * d - n) <= d

C5_Witness ==
  /\ PostJobOk
  /\ \E i \in 1..Len(Top) :
       /\ ranked[i].skill_score.den = 3
       /\ ranked[i].skill_score.num = 1
       /\ Top[i].semantic_score # 0

\* A turn of post_job's loop, and the locals it leaves.
TurnStep ==
  /\ thread.pc = "rank"
  /\ thread'.pc = "rank"
  /\ Len(thread'.locals) = Len(thread.locals) + 1

Turned == thread'.locals[Len(thread'.locals)]

\* The step answers a POST /post-job with 200: every element of `ranked`
\* comes from a turn of the loop.
RankedFromTurns ==
  (response'.op = "post_job" /\ response'.status = 200)
    => /\ Len(ranked') = Len(thread.locals)
       /\ \A p \in 1..Len(ranked') : \E q \in 1..Len(thread.locals) : ranked'[p] = thread.locals[q]

\* The skills and the years that the attribute table holds for an id when a
\* turn reads it: none and 0 when it holds no record.
StoredSkills(id) ==
  IF id \in DOMAIN resume_metadata THEN SeqToSet(resume_metadata[id].skills) ELSE {}

StoredYears(id) ==
  IF id \in DOMAIN resume_metadata THEN resume_metadata[id].experience_years ELSE 0

\* C6 as stated: skill_score is |required & skills| / max(|required|, 1) for
\* the set of required skills as the job post gives them.
C6_Original ==
  [][/\ RankedFromTurns
     /\ TurnStep =>
          LET required == SeqToSet(thread.job.required_skills)
              skills == StoredSkills(Turned.resume_id)
          IN Turned.skill_score.num * (IF required = {} THEN 1 ELSE Cardinality(required))
               = Cardinality(required \cap skills) * Turned.skill_score.den]_vars

\* C6, amended: in every turn of the loop skill_score is
\* |required & skills| / max(|required|, 1) for the set of the job's required
\* skills converted to lowercase and the skills stored for the candidate.
C6_SkillScoreLowercased ==
  [][/\ RankedFromTurns
     /\ TurnStep =>
          LET required == {Lower(thread.job.required_skills[i]) :
                             i \in 1..Len(thread.job.required_skills)}
              skills == StoredSkills(Turned.resume_id)
          IN /\ Turned.resume_id = thread.semantic_matches[Len(thread'.locals)].id
             /\ Turned.skill_score.num * (IF required = {} THEN 1 ELSE Cardinality(required))
                  = Cardinality(required \cap skills) * Turned.skill_score.den]_vars

C6_Witness ==
  /\ PostJobOk
  /\ \A p \in 1..Len(ranked) : ranked[p].resume_id \in DOMAIN resume_metadata
  /\ \E i \in 1..Len(job.required_skills) :
       Lower(job.required_skills[i]) # job.required_skills[i]
  /\ \E p \in 1..Len(ranked) :
       ranked[p].skill_score.num = 2 /\ ranked[p].skill_score.den = 2

\* C7: when the job has no required skills, skill_score is 0 for every
\* candidate of the result.
C7_EmptyRequired ==
  (PostJobOk /\ job.required_skills = << >>) =>
    \A i \in 1..Len(Top) : Top[i].skill_score = 0 /\ ranked[i].skill_score.num = 0

C7_Witness ==
  /\ PostJobOk
  /\ job.required_skills = << >>
  /\ \E i \in 1..Len(Top) : StoredSkills(Top[i].resume_id) # {}

\* C8: in every turn of the loop experience_score is
\* min(experience_years / max(min_experience_years, 1), 1.0) for the years
\* stored for the candidate; with min_experience_years = 0 a candidate with
\* at least one year gets 1.0.
C8_ExperienceScore ==
  [][/\ RankedFromTurns
     /\ TurnStep =>
          LET years == StoredYears(Turned.resume_id)
              wanted == thread.job.min_experience_years
              floor == IF wanted >= 1 THEN wanted ELSE 1
              e == Turned.experience_score
          IN /\ Turned.resume_id = thread.semantic_matches[Len(thread'.locals)].id
             /\ e.den > 0
             /\ IF years >= floor THEN e.num = e.den ELSE e.num * floor = years * e.den
             /\ (wanted = 0 /\ years >= 1) => e.num = e.den]_vars

C8_Witness ==
  /\ PostJobOk
  /\ job.min_experience_years = 3
  /\ \E p \in 1..Len(ranked) :
       /\ StoredYears(ranked[p].resume_id) = 2
       /\ ranked[p].experience_score.num * 3 = 2 * ranked[p].experience_score.den

\* C9: two entries of the result with the same final_score are in the order
\* in which the store query returned them.
C9_Stable ==
  PostJobOk =>
    \A i, k \in 1..Len(Top) :
      (i < k /\ Top[i].final_score = Top[k].final_score)
        => /\ Top[i].resume_id = ranked[i].resume_id
           /\ Top[k].resume_id = ranked[k].resume_id
           /\ ranked[i].pos < ranked[k].pos

C9_Witness ==
  /\ PostJobOk
  /\ \E i, k \in 1..Len(Top) : i < k /\ Top[i].final_score = Top[k].final_score
  /\ \E i, k \in 1..Len(Top) : i < k /\ ranked[i].pos > ranked[k].pos

\* C10: the store query of a job post returns min(10, number of store rows)
\* rows, and the 200 answer has min(5, that number) entries: at most 5, and
\* at least one.
C10_TopFive ==
  [][/\ (thread.pc = "query" /\ thread'.pc = "rank")
          => Len(thread'.semantic_matches) = Min(PrefilterSize, Len(rows))
     /\ (response'.op = "post_job" /\ response'.status = 200)
          => /\ Len(ranked') = Len(thread.semantic_matches)
             /\ Len(response'.top_matches) = Min(5, Len(thread.semantic_matches))
             /\ Len(response'.top_matches) <= 5
             /\ Len(response'.top_matches) >= 1]_vars

C10_Witness ==
  /\ PostJobOk
  /\ Len(ranked) > 5
  /\ Len(Top) = 5

\* The step answered an upload (POST /upload-resume or
\* POST /freelancers/register).
UploadOps == {"upload_resume", "register_freelancer"}

\* The file has no bytes, or no text after decoding and trimming.
EmptyInput(content) == Len(content) = 0 \/ Len(Strip(Decode(content))) = 0

\* C11: an upload whose file is empty, or empty after UTF-8 decoding and
\* whitespace trimming, is answered with 400 and one of the two empty-input
\* details, carries no resume id, and leaves the store rows and the
\* attribute table as they were, so that the next id drawn is the same.
C11_EmptyInputRejected ==
  [][(response'.op \in UploadOps /\ EmptyInput(file'.content))
       => /\ response'.status = 400
          /\ response'.detail \in {"Uploaded resume is empty.",
                                   "Could not parse UTF-8 text from resume."}
          /\ response'.resume_id = ""
          /\ rows' = rows
          /\ resume_metadata' = resume_metadata
          /\ ResumeIds(rows') = ResumeIds(rows)]_vars

C11_Witness ==
  /\ response.op \in UploadOps
  /\ response.status = 400
  /\ file.content = << " ", " " >>
  /\ rows # << >>
  /\ DOMAIN resume_metadata # {}

\* C12: a job post whose description has fewer than 10 characters is
\* answered with 422 and no matches, whether or not the store is empty, and
\* leaves the store rows and the attribute table as they were.
C12_ShortDescriptionRejected ==
  [][(response'.op = "post_job" /\ Len(job'.description) < 10)
       => /\ response'.status = 422
          /\ response'.top_matches = << >>
          /\ rows' = rows
          /\ resume_metadata' = resume_metadata]_vars

C12_Witness ==
  /\ response.op = "post_job"
  /\ Len(job.description) < 10
  /\ response.status = 422
  /\ rows # << >>
  /\ DOMAIN resume_metadata # {}

\* The call of fn has returned or raised.
Done(fn) == call.fn = fn /\ call.pc = "done"

\* C13 as stated: cosine_similarity on two vectors of different lengths,
\* and a store query whose embedding differs in length from a stored one,
\* raise DimensionMismatchError instead of producing a score.
C13_Original ==
  /\ (Done("cosine_similarity") /\ Len(call.args[1].v) # Len(call.args[2].v))
       => call.outcome.raised = "DimensionMismatchError"
  /\ (Done("query")
        /\ \E i \in 1..Len(call.args[1]) :
             Len(call.args[1][i].embedding.v) # Len(call.args[2].v))
       => call.outcome.raised = "DimensionMismatchError"

\* The token is a decimal integer between 1 and 50.
Qualifies(token) ==
  /\ Len(token) > 0
  /\ \A i \in 1..Len(token) : token[i] \in {"0", "1", "2", "3", "4", "5", "6", "7", "8", "9"}
  /\ ParseInt(token) >= 1
  /\ ParseInt(token) <= 50

\* C16 as stated: _extract_experience_years returns the first
\* whitespace-delimited token that is an integer in 1..50, skipping the
\* tokens before it that are not numbers or are out of range, and returns 0
\* when no token qualifies.
C16_Original ==
  Done("_extract_experience_years") =>
    LET tokens == Split(call.args[1])
        hits == {i \in 1..Len(tokens) : Qualifies(tokens[i])}
    IN /\ call.outcome.raised = ""
       /\ call.outcome.value =
            (IF hits = {} THEN 0
             ELSE ParseInt(tokens[CHOOSE i \in hits : \A k \in hits : i <= k]))

\* sub occurs in text at some position.
Occurs(sub, text) ==
  \E i \in 1..Len(text) :
    /\ i + Len(sub) - 1 <= Len(text)
    /\ \A k \in 1..Len(sub) : text[i + k - 1] = sub[k]

\* sep.join(strings)
RECURSIVE Join(_, _)
Join(strings, sep) ==
  IF Len(strings) = 0 THEN << >>
  ELSE IF Len(strings) = 1 THEN strings[1]
  ELSE strings[1] \o sep \o Join(Tail(strings), sep)

IdOf(text) == rows[CHOOSE i \in 1..Len(rows) : rows[i].document = text].id

\* C14 as stated: once the test's resumes A (skills docker, fastapi, react;
\* 4 years) and B (skills django, python; 2 years) are both stored, in
\* either order, the job post asking for react and fastapi with 3 years is
\* answered with a list whose first entry is A, with skill_score >= 0.5,
\* whatever the semantic scores of the two are.
C14_Original ==
  (PostJobOk /\ job = TestJob /\ Stored(rows, TestResumeA) /\ Stored(rows, TestResumeB))
    => /\ Len(Top) >= 1
       /\ Top[1].resume_id = IdOf(TestResumeA)
       /\ Top[1].skill_score >= 5000

\* C15 as stated: a POST /upload-resume that is answered with 200 carries
\* the message "Resume stored successfully" and a resume_id equal to the
\* name of the uploaded file.
C15_Original ==
  (response.op = "upload_resume" /\ response.status = 200)
    => /\ response.detail = "Resume stored successfully"
       /\ response.resume_id = file.filename

\* A step of the post_job call that runs in the worker thread.
PostJobStep == thread # NoThread /\ thread' # thread

\* C18 as stated: no step of a running post_job finds an upload between its
\* resume_collection.add and its write of resume_metadata, and the check
\* `if not resume_metadata` never finds the table empty while the store
\* has rows.
C18_Original ==
  [][PostJobStep
       => /\ pending = NoUpload
          /\ (thread.pc = "check" /\ NoResumes(resume_metadata)) => rows = << >>]_vars

\* C19 as stated: every step keeps each store row and each attribute record
\* as it was; the store only grows at its end.
C19_Original ==
  [][/\ Len(rows') >= Len(rows)
     /\ \A i \in 1..Len(rows) : rows'[i] = rows[i]
     /\ \A k \in DOMAIN resume_metadata :
          k \in DOMAIN resume_metadata' /\ resume_metadata'[k] = resume_metadata[k]]_vars

\* C20: no step of a POST /post-job request, whether it is answered with
\* 200, 404 or 422, changes the store rows, the attribute table or the
\* embedder; when it is answered no row of the store holds the job's
\* description.
C20_PostJobPure ==
  [][(response'.op = "post_job" \/ thread' # thread)
       => /\ rows' = rows
          /\ resume_metadata' = resume_metadata
          /\ model' = model
          /\ response'.op = "post_job"
               => \A i \in 1..Len(rows') : rows'[i].document # job'.description]_vars

C20_Witness ==
  /\ PostJobOk
  /\ Len(rows) >= 2
  /\ DOMAIN resume_metadata # {}

\* The number of elements of seq whose id is id.
CountId(seq, id) == Cardinality({i \in 1..Len(seq) : seq[i].id = id})

\* C21: the store does not enforce unique ids.  An add keeps every row and
\* appends one more with the given id, also when a row with that id is
\* already stored; a query that asks for at least as many results as there
\* are rows returns, for each id, as many entries as there are rows with it.
C21_DuplicateIds ==
  [][/\ call'.fn = "add"
          => /\ Len(rows') = Len(rows) + 1
             /\ SubSeq(rows', 1, Len(rows)) = rows
             /\ rows'[Len(rows')].id = call'.args[3]
             /\ CountId(rows', call'.args[3]) = CountId(rows, call'.args[3]) + 1
     /\ (call'.fn = "query" /\ call'.args[3] >= Len(rows))
          => \A id \in StoreIds :
               CountId(call'.outcome.value, id) = CountId(rows, id)]_vars

C21_Witness ==
  /\ call.fn = "query"
  /\ \E i, k \in 1..Len(call.outcome.value) :
       /\ i < k
       /\ call.outcome.value[i].id = call.outcome.value[k].id
       /\ call.outcome.value[i].document # call.outcome.value[k].document

\* The rounded cosine score of row i of the store rs against the query q.
ScoreOf(rs, q, i) == RoundScore(cosine_similarity(q, rs[i].embedding))

\* Row i comes before row k: a higher score, or the same score and added
\* earlier.
Before(rs, q, i, k) ==
  \/ ScoreOf(rs, q, i) > ScoreOf(rs, q, k)
  \/ ScoreOf(rs, q, i) = ScoreOf(rs, q, k) /\ i < k

\* C22: query(query_embedding, top_n) returns, for a count top_n >= 0,
\* min(top_n, number of rows) entries; the entries are distinct rows with
\* their rounded cosine scores, each one before the next (score descending,
\* equal scores in insertion order), and every row left out comes after
\* every row returned.
C22_QueryOrder ==
  call.fn = "query" =>
    /\ call.args[3] >= 0
         => Len(call.outcome.value) = Min(call.args[3], Len(call.args[1]))
    /\ \E idx \in [1..Len(call.outcome.value) -> 1..Len(call.args[1])] :
         /\ \A p \in DOMAIN idx :
              call.outcome.value[p] =
                [id |-> call.args[1][idx[p]].id,
                 document |-> call.args[1][idx[p]].document,
                 score |-> ScoreOf(call.args[1], call.args[2], idx[p])]
         /\ \A p, r \in DOMAIN idx :
              p < r => Before(call.args[1], call.args[2], idx[p], idx[r])
         /\ \A p \in DOMAIN idx, k \in 1..Len(call.args[1]) :
              k \notin {idx[r] : r \in DOMAIN idx}
                => Before(call.args[1], call.args[2], idx[p], k)

\* The vector has zero magnitude: it is empty or all its components are 0.
ZeroMagnitude(a) == \A i \in 1..Len(a.v) : a.v[i] = 0

\* C25: cosine_similarity returns, and never divides by a zero product of
\* magnitudes; when either argument has zero magnitude the value is 0.0.
C25_ZeroMagnitude ==
  Done("cosine_similarity") =>
    /\ call.outcome.raised = ""
    /\ call.outcome.value.sq_a > 0
    /\ call.outcome.value.sq_b > 0
    /\ (ZeroMagnitude(call.args[1]) \/ ZeroMagnitude(call.args[2]))
         => /\ call.outcome.value.dot = 0
            /\ call.outcome.value.sq_a = 1
            /\ call.outcome.value.sq_b = 1

C25_Witness ==
  /\ Done("cosine_similarity")
  /\ ~ZeroMagnitude(call.args[1])
  /\ ZeroMagnitude(call.args[2])
  /\ Len(call.args[2].v) = 2
  /\ call.outcome.value.dot = 0

\* C26 as stated: when no upload and no job post is in progress, the ids of
\* the store rows are the keys of the attribute table, and every entry that
\* post_job ranked has an attribute record.
C26_Original ==
  (pending = NoUpload /\ thread = NoThread)
    => /\ {rows[i].id : i \in 1..Len(rows)} = DOMAIN resume_metadata
       /\ \A p \in 1..Len(ranked) : ranked[p].resume_id \in DOMAIN resume_metadata

\* C27 as stated: an oauth_callback that creates a session found a pending
\* state whose recorded provider is the provider of the callback path.
C27_Original ==
  [][\A t \in DOMAIN callbacks :
       (callbacks[t].pc = "session" /\ user_sessions' # user_sessions)
         => callbacks[t].pending.provider = callbacks[t].provider]_vars

\* The states that the running callbacks carry.
Carried(cs) == {cs[t].state : t \in {u \in DOMAIN cs : cs[u] # NoCallback}}

\* C28: the first step of a callback leaves its state out of the pending
\* table, whether it answers or goes on to a later step, and leaves the
\* other pending states as they were; a callback whose state is not pending
\* (used before, also by a callback that is still running, or never issued)
\* is answered 400 "Invalid OAuth callback", sets no cookie, creates no
\* session and goes on to no later step; a callback goes on only with a
\* state that was pending and that no running callback carries; only the
\* first step of a callback removes a state; a callback creates a session
\* only in its last step, for the state it found pending; no step makes a
\* state pending that was issued before.
C28_StateOnce ==
  [][/\ (web'.op = "oauth_callback" /\ callbacks' = callbacks)
          => /\ web'.state \notin DOMAIN pending_oauth_states'
             /\ \A s \in (DOMAIN pending_oauth_states) \ {web'.state} :
                  /\ s \in DOMAIN pending_oauth_states'
                  /\ pending_oauth_states'[s] = pending_oauth_states[s]
             /\ web'.state \notin DOMAIN pending_oauth_states
                  => /\ web'.status = 400
                     /\ web'.detail = "Invalid OAuth callback"
                     /\ web'.set_cookie = ""
             /\ user_sessions' = user_sessions
     /\ \A t \in DOMAIN callbacks :
          (callbacks[t] = NoCallback /\ callbacks'[t] # NoCallback)
            => /\ callbacks'[t].state \in DOMAIN pending_oauth_states
               /\ callbacks'[t].pending = pending_oauth_states[callbacks'[t].state]
               /\ callbacks'[t].state \notin DOMAIN pending_oauth_states'
               /\ callbacks'[t].state \notin Carried(callbacks)
               /\ \A s \in (DOMAIN pending_oauth_states) \ {callbacks'[t].state} :
                    /\ s \in DOMAIN pending_oauth_states'
                    /\ pending_oauth_states'[s] = pending_oauth_states[s]
               /\ user_sessions' = user_sessions
     /\ (DOMAIN pending_oauth_states) \ (DOMAIN pending_oauth_states') # {}
          => \/ web'.op = "oauth_callback" /\ callbacks' = callbacks
             \/ \E t \in DOMAIN callbacks : callbacks[t] = NoCallback /\ callbacks'[t] # NoCallback
     /\ (web'.op = "oauth_callback" /\ user_sessions' # user_sessions)
          => \E t \in DOMAIN callbacks :
               /\ callbacks[t].pc = "session"
               /\ callbacks'[t] = NoCallback
               /\ web'.state = callbacks[t].state
               /\ web'.state \notin DOMAIN pending_oauth_states
     /\ \A s \in (DOMAIN pending_oauth_states') \ (DOMAIN pending_oauth_states) :
          /\ web'.op = "start_login"
          /\ s \notin {StatePool[k] : k \in 1..issued}]_vars

\* A callback with a state that a running callback found pending was
\* answered 400, while another state is pending.
C28_Witness ==
  /\ web.op = "oauth_callback"
  /\ web.provider = "google"
  /\ web.state \in KnownStates
  /\ web.state \in Carried(callbacks)
  /\ web.status = 400
  /\ web.detail = "Invalid OAuth callback"
  /\ DOMAIN pending_oauth_states # {}

\* C29 as stated: a token whose cookie a logout has deleted is no longer
\* authenticated: get_authenticated_user returns None for it, and GET
\* /ui/resume with it is redirected to the login page.
C29_Original ==
  /\ \A t \in logged_out : get_authenticated_user(user_sessions, t) = None
  /\ (web.op = "resume_page" /\ web.cookie \in logged_out) => web.status = 302

\* C30 as stated: GET /ui/resume answers 200 only when the auth cookie is a
\* token of the session table, and otherwise 302 to
\* /auth/login?next=/ui/resume; the session table only changes by one new
\* token, in a step of oauth_callback or of the mock-consent submit that
\* answers 302 and sets that token as the auth cookie.
C30_Original ==
  [][/\ web'.op \in {"resume_page", "resume_portal"}
          => /\ web'.status = 200
                  <=> (web'.cookie # "" /\ web'.cookie \in DOMAIN user_sessions')
             /\ web'.status # 200
                  => /\ web'.status = 302
                     /\ web'.location = "/auth/login?next=/ui/resume"
     /\ user_sessions' # user_sessions
          => /\ web'.op \in {"oauth_callback", "mock_consent_submit"}
             /\ web'.status = 302
             /\ DOMAIN user_sessions' = (DOMAIN user_sessions) \cup {web'.set_cookie}
             /\ web'.set_cookie \notin DOMAIN user_sessions
             /\ \A t \in DOMAIN user_sessions : user_sessions'[t] = user_sessions[t]]_vars

\* The embeddings in use: those of the store rows and, after a job post that
\* computed one, the query embedding.
Embeddings(rs, q) == {rs[i].embedding : i \in 1..Len(rs)} \cup (IF q = NoVector THEN {} ELSE {q})

\* C24: the embedder's strategy never changes, and after every step all
\* embeddings of the store rows and the query embedding have the same
\* number of components (32 with the hash fallback).
C24_FixedDimension ==
  [][/\ model' = model
     /\ \A u, v \in Embeddings(rows', job_vector') : Len(u.v) = Len(v.v)
     /\ ~model' => \A u \in Embeddings(rows', job_vector') : Len(u.v) = FallbackDim]_vars

C24_Witness ==
  /\ ~model
  /\ PostJobOk
  /\ Len(rows) >= 2
  /\ rows[1].embedding # rows[2].embedding
  /\ job_vector \notin {rows[i].embedding : i \in 1..Len(rows)}
  /\ Len(job_vector.v) = FallbackDim

\* The rounded cosine scores of the rows of rs against the query q.
Scores(rs, q) == SubSeq([i \in 1..Len(rs) |-> ScoreOf(rs, q, i)], 1, Len(rs))

\* The number of rows that come before row i in the similarity order: those
\* with a higher score, and those with the same score that were added earlier.
Ahead(scores, i) ==
  Cardinality({k \in 1..Len(scores) :
                 scores[k] > scores[i] \/ (scores[k] = scores[i] /\ k < i)})

\* Every match is a row of rs with fewer than 10 rows before it.
FromFirstRows(matches, rs, scores) ==
  \A p \in 1..Len(matches) :
    \E i \in 1..Len(rs) :
      /\ rs[i].id = matches[p].id
      /\ Ahead(scores, i) < PrefilterSize

\* C23: every row that the store query of a job post returns is one of the
\* first 10 rows of the store in similarity order (fewer than 10 rows come
\* before it), and every entry of the answer is one of the rows returned.  A
\* row with 10 or more rows before it is in no entry, whatever its skills
\* and years.
C23_PrefilterOnly ==
  [][/\ (thread.pc = "query" /\ thread'.pc = "rank")
          => /\ Len(thread'.semantic_matches) <= PrefilterSize
             /\ FromFirstRows(thread'.semantic_matches, rows,
                              Scores(rows, thread.job_embedding))
     /\ (response'.op = "post_job" /\ response'.status = 200)
          => \A p \in 1..Len(response'.top_matches) :
               \E q \in 1..Len(thread.semantic_matches) :
                 thread.semantic_matches[q].id = response'.top_matches[p].resume_id]_vars

\* A row with 10 or more rows before it has the skills and the years of the
\* job and is in no entry, and no entry has the years.
SkilledLeftOut(scores) ==
  \E i \in 1..Len(rows) :
    /\ Ahead(scores, i) >= PrefilterSize
    /\ StoredYears(rows[i].id) >= job.min_experience_years
    /\ RequiredSet(job.required_skills) \subseteq StoredSkills(rows[i].id)
    /\ \A p \in 1..Len(Top) : Top[p].resume_id # rows[i].id
    /\ \A p \in 1..Len(Top) : StoredYears(Top[p].resume_id) < job.min_experience_years

\* The last row of the store is in `ranked`, so the query saw all rows.
C23_Witness ==
  /\ PostJobOk
  /\ Len(rows) > PrefilterSize
  /\ \E p \in 1..Len(ranked) : ranked[p].resume_id = rows[Len(rows)].id
  /\ SkilledLeftOut(Scores(rows, job_vector))

C22_Witness ==
  /\ call.fn = "query"
  /\ Len(call.args[1]) = 3
  /\ call.args[3] = 2
  /\ call.outcome.value[1].score = call.outcome.value[2].score
  /\ call.outcome.value[1].id # call.outcome.value[2].id
  /\ \E k \in 1..3 : ScoreOf(call.args[1], call.args[2], k) < call.outcome.value[2].score
====
